-------------------------- MODULE OAuthRefreshProofs --------------------------
(***************************************************************************)
(* Proofs about the refresh of OAuth credentials, for any number of        *)
(* instances, requests, re-authorisations and failures.                    *)
(***************************************************************************)
EXTENDS OAuthRefresh, FiniteSetTheorems, TLAPS

\* The administrator is not one of the processes, and no process is called nobody.
LEMMA Apart ==
    /\ "admin" \notin Procs /\ Nobody \notin Procs
    /\ \A q \in Requests : q \in Procs /\ q \notin Refreshers
    /\ \A p \in Refreshers : p \in Procs
BY OAuthRefreshAssumption DEF Procs, Nobody

\* The credentials the account starts with are credentials.
LEMMA InitialCreds == Initial \in Creds /\ Initial.n = 0 /\ Initial.version = 0 /\ Initial.grant = 0
BY OAuthRefreshAssumption DEF Initial, Creds

\* A rotation keeps the grant, uses one more token and has a version later than any other.
LEMMA RotatedCreds ==
    ASSUME NEW c \in Creds, latest \in Nat
    PROVE  /\ Rotated(c) \in Creds
           /\ Rotated(c).grant = c.grant /\ Rotated(c).n = c.n + 1
           /\ Rotated(c).version = latest + 1
<1>1. c.grant \in 0..MaxGrants /\ c.n \in Nat
  BY DEF Creds
<1>2. QED BY <1>1 DEF Creds, Rotated, NextVersion

\* The fields of credentials.
LEMMA CredFields ==
    ASSUME NEW c \in Creds
    PROVE  c.grant \in 0..MaxGrants /\ c.n \in Nat /\ c.version \in Nat
BY DEF Creds

\* At most one token is cached.
LEMMA CacheOfOne ==
    ASSUME NEW S, S = {} \/ \E c : S = {c}
    PROVE  Cardinality(S) <= 1
<1>1. Cardinality({}) = 0 /\ \A c : Cardinality({c}) = 1
  BY FS_EmptySet, FS_Singleton
<1>2. CASE S = {} BY <1>1, <1>2
<1>3. CASE \E c : S = {c}
  <2>1. PICK c : S = {c} BY <1>3
  <2>2. Cardinality(S) = 1 BY <1>1, <2>1
  <2> QED BY <2>2
<1>4. QED BY <1>2, <1>3

-----------------------------------------------------------------------------
(* The state of the program *)

\* The type invariant without the size of the cache.
Types ==
    /\ kind \in {"plain", "guarded"}
    /\ cred \in Creds /\ due \in BOOLEAN /\ status \in {"active", "error"} /\ latest \in Nat
    /\ valid \in [0..MaxGrants -> Nat]
    /\ cache \subseteq Creds
    /\ lock \in Procs \cup {Nobody} /\ releasing \subseteq Procs
    /\ held \in [Requests -> Creds] /\ attempted \in [Procs -> Creds]
    /\ pc \in [Procs \cup {"admin"} -> Labels] /\ after \in [Procs -> Labels]
    /\ trouble \subseteq Kinds \cup {"raced"}

\* Every step keeps the types.
LEMMA TypeStep ==
    ASSUME Types, Next
    PROVE  Types'
<1> USE Apart, InitialCreds, RotatedCreds, OAuthRefreshAssumption
     DEF Types, Labels, Refreshing, Kinds, row, mine
<1>1. ASSUME NEW p \in Refreshers, FindDue(p) PROVE Types'
  BY <1>1 DEF FindDue, Goto
<1>2. ASSUME NEW p \in Requests, NeedToken(p) PROVE Types'
  BY <1>2 DEF NeedToken, Goto
<1>3. ASSUME NEW p \in Procs, TryLock(p) PROVE Types'
<2>1. pc' \in [Procs \cup {"admin"} -> Labels]
  BY <1>3 DEF TryLock, Goto, Works, Fails
<2>2. after' \in [Procs -> Labels]
  BY <1>3 DEF TryLock, Goto, Works, Fails
<2>3. trouble' \subseteq Kinds \cup {"raced"}
  BY <1>3 DEF TryLock, Goto, Works, Fails
<2>4. held' \in [Requests -> Creds]
  BY <1>3 DEF TryLock, Goto, Works, Fails
<2>5. attempted' \in [Procs -> Creds]
  BY <1>3 DEF TryLock, Goto, Works, Fails
<2>6. cred' \in Creds /\ latest' \in Nat
  BY <1>3 DEF TryLock, Goto, Works, Fails
<2>7. valid' \in [0..MaxGrants -> Nat]
  BY <1>3 DEF TryLock, Goto, Works, Fails
<2>8. QED
  BY <1>3, <2>1, <2>2, <2>3, <2>4, <2>5, <2>6, <2>7 DEF TryLock, Goto, Works, Fails
<1>4. ASSUME NEW p \in Requests, WaitForCache(p) PROVE Types'
  BY <1>4 DEF WaitForCache, Goto, Answered
<1>5. ASSUME NEW p \in Procs, Reread(p) PROVE Types'
<2>1. pc' \in [Procs \cup {"admin"} -> Labels]
  BY <1>5 DEF Reread, Goto, Works, Fails, Leave, LeaveWith, LeaveWithError
<2>2. after' \in [Procs -> Labels]
  BY <1>5 DEF Reread, Goto, Works, Fails, Leave, LeaveWith, LeaveWithError
<2>3. trouble' \subseteq Kinds \cup {"raced"}
  BY <1>5 DEF Reread, Goto, Works, Fails, Leave, LeaveWith, LeaveWithError
<2>4. held' \in [Requests -> Creds]
  BY <1>5 DEF Reread, Goto, Works, Fails, Leave, LeaveWith, LeaveWithError
<2>5. attempted' \in [Procs -> Creds]
  BY <1>5 DEF Reread, Goto, Works, Fails, Leave, LeaveWith, LeaveWithError
<2>6. cred' \in Creds /\ latest' \in Nat
  BY <1>5 DEF Reread, Goto, Works, Fails, Leave, LeaveWith, LeaveWithError
<2>7. valid' \in [0..MaxGrants -> Nat]
  BY <1>5 DEF Reread, Goto, Works, Fails, Leave, LeaveWith, LeaveWithError
<2>8. QED
  BY <1>5, <2>1, <2>2, <2>3, <2>4, <2>5, <2>6, <2>7 DEF Reread, Goto, Works, Fails, Leave,
     LeaveWith,
     LeaveWithError
<1>6. ASSUME NEW p \in Procs, Refresh(p) PROVE Types'
<2>0. attempted[p].grant \in 0..MaxGrants /\ valid[attempted[p].grant] \in Nat
  BY CredFields DEF Types
<2>1. pc' \in [Procs \cup {"admin"} -> Labels]
  BY <1>6 DEF Refresh, Goto, Works, Fails, Leave, LeaveWithError
<2>2. after' \in [Procs -> Labels]
  BY <1>6 DEF Refresh, Goto, Works, Fails, Leave, LeaveWithError
<2>3. trouble' \subseteq Kinds \cup {"raced"}
  BY <1>6 DEF Refresh, Goto, Works, Fails, Leave, LeaveWithError
<2>4. held' \in [Requests -> Creds]
  BY <1>6 DEF Refresh, Goto, Works, Fails, Leave, LeaveWithError
<2>5. attempted' \in [Procs -> Creds]
  BY <1>6 DEF Refresh, Goto, Works, Fails, Leave, LeaveWithError
<2>6. cred' \in Creds /\ latest' \in Nat
  BY <1>6 DEF Refresh, Goto, Works, Fails, Leave, LeaveWithError
<2>7. valid' \in [0..MaxGrants -> Nat]
  BY <1>6, <2>0 DEF Refresh, Goto, Works, Fails, Leave, LeaveWithError
<2>8. QED
  BY <1>6, <2>1, <2>2, <2>3, <2>4, <2>5, <2>6, <2>7 DEF Refresh, Goto, Works, Fails, Leave,
     LeaveWithError
<1>7. ASSUME NEW p \in Procs, Persist(p) PROVE Types'
<2>0. /\ Rotated(attempted[p]) \in Creds
      /\ Rotated(attempted[p]).version = latest + 1 /\ attempted[p] \in Creds
      /\ cred \in Creds /\ held \in [Requests -> Creds]
  BY RotatedCreds, CredFields, p \in Procs DEF Types
<2>1. pc' \in [Procs \cup {"admin"} -> Labels]
  BY <1>7, <2>0 DEF Persist, Goto, Works, Fails, Leave, LeaveWith, LeaveWithError, Write,
     Refreshed,
     Race
<2>2. after' \in [Procs -> Labels]
  BY <1>7, <2>0 DEF Persist, Goto, Works, Fails, Leave, LeaveWith, LeaveWithError, Write,
     Refreshed,
     Race
<2>3. \/ trouble' = trouble \/ trouble' = Race
      \/ \E t \in {"lost", "fruitless"} : trouble' = trouble \cup {t}
  BY <1>7, <2>0 DEF Persist, Goto, Works, Fails, Leave, LeaveWith, LeaveWithError, Write,
     Refreshed,
     Race
<2>4. held' \in {held, [held EXCEPT ![p] = cred], [held EXCEPT ![p] = Rotated(attempted[p])]}
  BY <1>7, <2>0 DEF Persist, Goto, Works, Fails, Leave, LeaveWith, LeaveWithError, Write,
     Refreshed,
     Race
<2>5. attempted' \in [Procs -> Creds]
  BY <1>7, <2>0 DEF Persist, Goto, Works, Fails, Leave, LeaveWith, LeaveWithError, Write,
     Refreshed,
     Race
<2>6. cred' \in Creds /\ latest' \in Nat
  BY <1>7, <2>0 DEF Persist, Goto, Works, Fails, Leave, LeaveWith, LeaveWithError, Write,
     Refreshed,
     Race
<2>7. valid' \in [0..MaxGrants -> Nat]
  BY <1>7, <2>0 DEF Persist, Goto, Works, Fails, Leave, LeaveWith, LeaveWithError, Write,
     Refreshed,
     Race
<2>8. held' \in [Requests -> Creds]
  BY <2>0, <2>4
<2>9. QED
  BY <1>7, <2>1, <2>2, <2>3, <2>4, <2>5, <2>6, <2>7, <2>8 DEF Persist, Goto, Works, Fails,
     Leave,
     LeaveWith, LeaveWithError, Write, Refreshed, Race
<1>8. ASSUME NEW p \in Procs, DropCache(p) PROVE Types'
<2>1. pc' \in [Procs \cup {"admin"} -> Labels]
  BY <1>8 DEF DropCache, Works, Fails, Leave, LeaveWithError, Goto
<2>2. after' \in [Procs -> Labels]
  BY <1>8 DEF DropCache, Works, Fails, Leave, LeaveWithError, Goto
<2>3. trouble' \subseteq Kinds \cup {"raced"}
  BY <1>8 DEF DropCache, Works, Fails, Leave, LeaveWithError, Goto
<2>4. held' \in [Requests -> Creds]
  BY <1>8 DEF DropCache, Works, Fails, Leave, LeaveWithError, Goto
<2>5. attempted' \in [Procs -> Creds]
  BY <1>8 DEF DropCache, Works, Fails, Leave, LeaveWithError, Goto
<2>6. cred' \in Creds /\ latest' \in Nat
  BY <1>8 DEF DropCache, Works, Fails, Leave, LeaveWithError, Goto
<2>7. valid' \in [0..MaxGrants -> Nat]
  BY <1>8 DEF DropCache, Works, Fails, Leave, LeaveWithError, Goto
<2>8. QED
  BY <1>8, <2>1, <2>2, <2>3, <2>4, <2>5, <2>6, <2>7 DEF DropCache, Works, Fails, Leave,
     LeaveWithError, Goto
<1>9. ASSUME NEW p \in Procs, Recover(p) PROVE Types'
<2>1. pc' \in [Procs \cup {"admin"} -> Labels]
  BY <1>9 DEF Recover, Works, Fails, Leave, LeaveWithError, LeaveWith, Goto
<2>2. after' \in [Procs -> Labels]
  BY <1>9 DEF Recover, Works, Fails, Leave, LeaveWithError, LeaveWith, Goto
<2>3. trouble' \subseteq Kinds \cup {"raced"}
  BY <1>9 DEF Recover, Works, Fails, Leave, LeaveWithError, LeaveWith, Goto
<2>4. held' \in [Requests -> Creds]
  BY <1>9 DEF Recover, Works, Fails, Leave, LeaveWithError, LeaveWith, Goto
<2>5. attempted' \in [Procs -> Creds]
  BY <1>9 DEF Recover, Works, Fails, Leave, LeaveWithError, LeaveWith, Goto
<2>6. cred' \in Creds /\ latest' \in Nat
  BY <1>9 DEF Recover, Works, Fails, Leave, LeaveWithError, LeaveWith, Goto
<2>7. valid' \in [0..MaxGrants -> Nat]
  BY <1>9 DEF Recover, Works, Fails, Leave, LeaveWithError, LeaveWith, Goto
<2>8. QED
  BY <1>9, <2>1, <2>2, <2>3, <2>4, <2>5, <2>6, <2>7 DEF Recover, Works, Fails, Leave,
     LeaveWithError,
     LeaveWith, Goto
<1>10. ASSUME NEW p \in Procs, Release(p) PROVE Types'
  BY <1>10 DEF Release, Goto, Answered
<1>11. ASSUME NEW p \in Refreshers, SetError(p) PROVE Types'
<2>1. pc' \in [Procs \cup {"admin"} -> Labels]
  BY <1>11 DEF SetError, Goto, Works, Fails
<2>2. after' \in [Procs -> Labels]
  BY <1>11 DEF SetError, Goto, Works, Fails
<2>3. trouble' \subseteq Kinds \cup {"raced"}
  BY <1>11 DEF SetError, Goto, Works, Fails
<2>4. held' \in [Requests -> Creds]
  BY <1>11 DEF SetError, Goto, Works, Fails
<2>5. attempted' \in [Procs -> Creds]
  BY <1>11 DEF SetError, Goto, Works, Fails
<2>6. cred' \in Creds /\ latest' \in Nat
  BY <1>11 DEF SetError, Goto, Works, Fails
<2>7. valid' \in [0..MaxGrants -> Nat]
  BY <1>11 DEF SetError, Goto, Works, Fails
<2>8. QED
  BY <1>11, <2>1, <2>2, <2>3, <2>4, <2>5, <2>6, <2>7 DEF SetError, Goto, Works, Fails
<1>12. ASSUME NEW p \in Requests, CheckTokenVersion(p) PROVE Types'
<2>1. pc' \in [Procs \cup {"admin"} -> Labels]
  BY <1>12 DEF CheckTokenVersion, Goto, Answered, Works, Fails
<2>2. after' \in [Procs -> Labels]
  BY <1>12 DEF CheckTokenVersion, Goto, Answered, Works, Fails
<2>3. trouble' \subseteq Kinds \cup {"raced"}
  BY <1>12 DEF CheckTokenVersion, Goto, Answered, Works, Fails
<2>4. held' \in [Requests -> Creds]
  BY <1>12 DEF CheckTokenVersion, Goto, Answered, Works, Fails
<2>5. attempted' \in [Procs -> Creds]
  BY <1>12 DEF CheckTokenVersion, Goto, Answered, Works, Fails
<2>6. cred' \in Creds /\ latest' \in Nat
  BY <1>12 DEF CheckTokenVersion, Goto, Answered, Works, Fails
<2>7. valid' \in [0..MaxGrants -> Nat]
  BY <1>12 DEF CheckTokenVersion, Goto, Answered, Works, Fails
<2>8. QED
  BY <1>12, <2>1, <2>2, <2>3, <2>4, <2>5, <2>6, <2>7 DEF CheckTokenVersion, Goto, Answered,
     Works,
     Fails
<1>13. ASSUME NEW p \in Requests, SetAccessToken(p) PROVE Types'
  BY <1>13 DEF SetAccessToken, Goto, Answered
<1>14. ASSUME NEW p \in Procs \cup {"admin"}, Invalidate(p) PROVE Types'
  BY <1>14 DEF Invalidate, Goto, Works, Fails
<1>15. ASSUME Reauthorise PROVE Types'
<2>1. PICK v \in {0, latest + 1} : Write([grant |-> cred.grant + 1, n |-> 0, version |-> v])
  BY <1>15 DEF Reauthorise, NextVersion
<2>2. /\ cred.grant \in 0..MaxGrants /\ cred.grant < MaxGrants /\ v \in Nat
      /\ cred.grant + 1 \in 0..MaxGrants
  BY <1>15, CredFields DEF Types, Reauthorise
<2>3. [grant |-> cred.grant + 1, n |-> 0, version |-> v] \in Creds
  BY <2>2 DEF Creds
<2>4. cred' \in Creds /\ latest' \in Nat /\ due' \in BOOLEAN /\ status' = status
  BY <2>1, <2>2, <2>3 DEF Write
<2>5. trouble' \subseteq Kinds \cup {"raced"}
  BY <1>15 DEF Reauthorise, Race
<2>6. QED
  BY <1>15, <2>4, <2>5 DEF Reauthorise, Goto
<1>16. ASSUME ClearError PROVE Types'
  BY <1>16 DEF ClearError, Goto
<1>17. ASSUME ComesDue PROVE Types'
  BY <1>17 DEF ComesDue
<1>18. ASSUME CacheExpires PROVE Types'
  BY <1>18 DEF CacheExpires
<1>19. ASSUME LockLapses PROVE Types'
  BY <1>19 DEF LockLapses, Works, Fails
<1>20. ASSUME NEW i, Crash(i) PROVE Types'
  BY <1>20 DEF Crash, Fails
<1>21. ASSUME UNCHANGED vars PROVE Types'
  BY <1>21 DEF vars
<1>22. QED
  BY <1>1, <1>2, <1>3, <1>4, <1>5, <1>6, <1>7, <1>8, <1>9, <1>10, <1>11, <1>12, <1>13, <1>14,
     <1>15, <1>16, <1>17, <1>18, <1>19, <1>20, <1>21 DEF Next, Refresher, Request, Attempt,
        Admin,
     Procs

-----------------------------------------------------------------------------
(* What a step of a refresh does, case by case *)

\* p alone moves.
OnlyMoves(p) ==
    /\ \A q \in Procs \cup {"admin"} : q # p => pc'[q] = pc[q]
    /\ \A q \in Procs : q # p => after'[q] = after[q]

\* p is about to release the lock, and goes on with one of these.
Leaves(p, nexts) == OnlyMoves(p) /\ pc'[p] = "release" /\ after'[p] \in nexts

\* p goes on inside the refresh.
GoesOn(p, label) == OnlyMoves(p) /\ pc'[p] = label /\ after'[p] = after[p]

\* p has c in hand; or the row's credentials; or what it had.
Takes(p, c) == p \in Requests /\ held' = [held EXCEPT ![p] = c]
TakesRow(p) == held' = held \/ Takes(p, cred)

\* Something fails that is no loss, or nothing does.
Harmless == trouble' = trouble \/ trouble' = trouble \cup {"fruitless"}

\* The ways to leave RefreshIfNeeded, and to go on in it.
LEMMA Returns ==
    ASSUME Types, NEW p \in Procs
    PROVE  /\ \A next : Leave(p, next) => Leaves(p, {next})
           /\ \A label : Goto(p, label) /\ UNCHANGED after => GoesOn(p, label)
           /\ LeaveWithError(p) => Leaves(p, {"idle", "check"})
           /\ LeaveWith(p, cred) => Leaves(p, {"idle", "check"}) /\ TakesRow(p)
<1>1. ASSUME NEW next, Leave(p, next) PROVE Leaves(p, {next})
  BY <1>1 DEF Leave, Goto, Leaves, OnlyMoves, Types
<1>2. ASSUME NEW label, Goto(p, label), UNCHANGED after PROVE GoesOn(p, label)
  BY <1>2 DEF Goto, GoesOn, OnlyMoves, Types
<1>3. LeaveWithError(p) => Leaves(p, {"idle", "check"})
  BY <1>1 DEF LeaveWithError, Leaves
<1>4. LeaveWith(p, cred) => Leaves(p, {"idle", "check"}) /\ TakesRow(p)
  BY <1>1 DEF LeaveWith, Leaves, TakesRow, Takes
<1>5. QED BY <1>1, <1>2, <1>3, <1>4

\* A reread starts from what is in the row, or leaves.
LEMMA RereadStep ==
    ASSUME Types, NEW p \in Procs, Reread(p)
    PROVE  /\ pc[p] = "reread" /\ Harmless /\ UNCHANGED <<kind, row, valid, cache, lock, releasing>>
           /\ \/ /\ status = "active" /\ GoesOn(p, "provider")
                 /\ attempted' = [attempted EXCEPT ![p] = cred] /\ UNCHANGED held
              \/ Leaves(p, {"idle", "check"}) /\ TakesRow(p) /\ UNCHANGED attempted
BY Returns DEF Reread, Works, Fails, TakesRow, Harmless, mine

\* The provider takes a token that is good, and refuses any other.
LEMMA RefreshStep ==
    ASSUME Types, NEW p \in Procs, Refresh(p)
    PROVE  LET c == attempted[p]
               used == [valid EXCEPT ![c.grant] = @ + 1]
           IN  /\ pc[p] = "provider" /\ UNCHANGED <<kind, row, cache, lock, releasing, mine>>
               /\ \/ /\ c.n = valid[c.grant] /\ valid' = used
                     /\ GoesOn(p, "persist") /\ UNCHANGED trouble
                  \/ /\ c.n = valid[c.grant] /\ valid' = used
                     /\ Leaves(p, {"idle", "check"}) /\ trouble' = trouble \cup {"lost"}
                  \/ /\ c.n # valid[c.grant] /\ UNCHANGED valid
                     /\ GoesOn(p, "recover") /\ UNCHANGED trouble
                  \/ Leaves(p, {"idle", "check"}) /\ Harmless /\ UNCHANGED valid
BY Returns DEF Refresh, Works, Fails, Harmless

\* The row is written with the rotated credentials, left to who has changed it, or
\* the answer of the write is lost.
LEMMA PersistStep ==
    ASSUME Types, NEW p \in Procs, Persist(p)
    PROVE  /\ pc[p] = "persist" /\ UNCHANGED <<kind, valid, cache, lock, releasing, attempted, status>>
           /\ kind = "guarded" /\ ~UNCHANGED cred => cred = attempted[p]
           /\ \/ /\ cred' = Rotated(attempted[p]) /\ latest' = latest + 1 /\ trouble' = Race
                 /\ \/ Leaves(p, {"check"}) /\ Takes(p, Rotated(attempted[p]))
                    \/ p \in Refreshers /\ Leaves(p, {"invalidate"}) /\ UNCHANGED held
                    \/ GoesOn(p, "dropCache") /\ UNCHANGED held
              \/ /\ cred # attempted[p] /\ Leaves(p, {"idle", "check"})
                 /\ UNCHANGED row /\ TakesRow(p) /\ Harmless
              \/ /\ \/ UNCHANGED row
                    \/ cred' = Rotated(attempted[p]) /\ latest' = latest + 1
                 /\ Leaves(p, {"idle", "check"}) /\ UNCHANGED held
                 /\ trouble' = trouble \cup {"lost"}
<1> DEFINE c == Rotated(attempted[p])
<1>1. c.version = latest + 1 /\ latest + 1 > latest
  BY DEF Rotated, NextVersion, Types
<1> HIDE DEF c
<1>2. Write(c) => cred' = c /\ latest' = latest + 1 /\ UNCHANGED status
  BY <1>1 DEF Write
<1>3. p \notin Requests => p \in Refreshers
  BY DEF Procs
<1>4. Refreshed(p) => \/ Leaves(p, {"check"}) /\ Takes(p, c)
                      \/ p \in Refreshers /\ Leaves(p, {"invalidate"}) /\ UNCHANGED held
  BY <1>3, Returns DEF Refreshed, Takes, c
<1>5. CASE kind = "plain" /\ Write(c) /\ trouble' = Race /\ Refreshed(p)
  BY <1>2, <1>4, <1>5 DEF Persist, c
<1>6. CASE /\ kind = "guarded" /\ cred = attempted[p] /\ Write(c)
           /\ trouble' = Race /\ Goto(p, "dropCache") /\ UNCHANGED <<held, after>>
  BY <1>2, <1>6, Returns DEF Persist, c
<1>7. CASE /\ cred # attempted[p] /\ UNCHANGED row
           /\ \/ Works /\ LeaveWith(p, cred)
              \/ Fails("fruitless") /\ LeaveWithError(p) /\ UNCHANGED held
  BY <1>7, Returns DEF Persist, Works, Fails, TakesRow, Harmless, row
<1>8. CASE /\ Fails("lost") /\ LeaveWithError(p) /\ UNCHANGED held
           /\ UNCHANGED row \/ ((kind = "plain" \/ cred = attempted[p]) /\ Write(c))
  BY <1>2, <1>8, Returns DEF Persist, Fails, c, row
<1>9. QED BY <1>5, <1>6, <1>7, <1>8 DEF Persist, c

\* The cached token is deleted, or the deletion has failed.
LEMMA DropCacheStep ==
    ASSUME Types, NEW p \in Procs, DropCache(p)
    PROVE  /\ pc[p] = "dropCache" /\ UNCHANGED <<kind, row, valid, lock, releasing, attempted>>
           /\ Leaves(p, {"idle", "check", "invalidate"}) /\ TakesRow(p) /\ Harmless
           /\ cache' = cache \/ cache' = {}
           /\ trouble' = {} => cache' = {}
BY Returns DEF DropCache, Works, Fails, TakesRow, Takes, Harmless, Leaves

\* A refused refresh is given up, taken over from another, or makes the account fail.
LEMMA RecoverStep ==
    ASSUME Types, NEW p \in Procs, Recover(p)
    PROVE  /\ pc[p] = "recover" /\ UNCHANGED <<kind, row, valid, cache, lock, releasing, attempted>>
           /\ Leaves(p, {"idle", "check", "setError"}) /\ TakesRow(p) /\ Harmless
BY Returns DEF Recover, Works, Fails, TakesRow, Harmless, Leaves

-----------------------------------------------------------------------------
(* Refresh tokens *)

\* Tokens stay behind their grants when p moves alone and they do so for p.
LEMMA TokensKept ==
    ASSUME Types, Types', Tokens, NEW p \in Procs, OnlyMoves(p),
           \A q \in Procs : q # p => attempted'[q] = attempted[q],
           \A g \in 0..MaxGrants : valid'[g] >= valid[g],
           cred'.n <= valid'[cred'.grant], TokenOf(p)'
    PROVE  Tokens'
<1>1. ASSUME NEW q \in Procs, q # p PROVE TokenOf(q)'
  <2>1. /\ attempted'[q] = attempted[q] /\ attempted[q] \in Creds
        /\ pc'[q] = pc[q] /\ after'[q] = after[q] /\ TokenOf(q)
    BY <1>1 DEF OnlyMoves, Tokens, Types
  <2>2. /\ attempted[q].grant \in 0..MaxGrants /\ attempted[q].n \in Nat
        /\ valid[attempted[q].grant] \in Nat /\ valid'[attempted[q].grant] \in Nat
    BY <2>1, CredFields DEF Types
  <2>3. QED BY <2>1, <2>2 DEF TokenOf, Refused
<1>2. QED BY <1>1 DEF Tokens

\* No step lets a token overtake its grant.
LEMMA TokensStep ==
    ASSUME Types, Types', Tokens, Next
    PROVE  Tokens'
<1> USE Apart, InitialCreds, OAuthRefreshAssumption
     DEF Types, Tokens, TokenOf, Refused, Outcomes, row, mine
<1>1. ASSUME NEW p \in Refreshers, FindDue(p) PROVE Tokens'
  BY <1>1 DEF FindDue, Goto
<1>2. ASSUME NEW p \in Requests, NeedToken(p) PROVE Tokens'
  BY <1>2 DEF NeedToken, Goto
<1>3. ASSUME NEW p \in Procs, TryLock(p) PROVE Tokens'
  BY <1>3 DEF TryLock, Goto, Works, Fails
<1>4. ASSUME NEW p \in Requests, WaitForCache(p) PROVE Tokens'
  BY <1>4 DEF WaitForCache, Goto, Answered
<1>5. ASSUME NEW p \in Procs, Reread(p) PROVE Tokens'
  <2>1. /\ OnlyMoves(p) /\ cred' = cred /\ valid' = valid
        /\ \A q \in Procs : q # p => attempted'[q] = attempted[q]
    BY <1>5, RereadStep DEF Leaves, GoesOn
  <2>2. TokenOf(p)'
    BY <1>5, RereadStep DEF Leaves, GoesOn, TokenOf
  <2>3. \A g \in 0..MaxGrants : valid[g] \in Nat /\ valid'[g] >= valid[g]
    BY <2>1
  <2>4. QED BY <2>1, <2>2, <2>3, TokensKept
<1>6. ASSUME NEW p \in Procs, Refresh(p) PROVE Tokens'
  <2> DEFINE c == attempted[p]
  <2>1. c.grant \in 0..MaxGrants /\ c.n \in Nat /\ \A g \in 0..MaxGrants : valid[g] \in Nat
    BY CredFields
  <2>2. /\ OnlyMoves(p) /\ cred' = cred /\ attempted' = attempted
        /\ valid' = valid \/ valid' = [valid EXCEPT ![c.grant] = valid[c.grant] + 1]
    BY <1>6, RefreshStep DEF Leaves, GoesOn
  <2>3. \A g \in 0..MaxGrants : valid'[g] >= valid[g]
    <3>1. CASE valid' = valid BY <2>1, <3>1
    <3>2. CASE valid' = [valid EXCEPT ![c.grant] = valid[c.grant] + 1]
      <4>1. \A g \in 0..MaxGrants :
               valid'[g] = IF g = c.grant THEN valid[c.grant] + 1 ELSE valid[g]
        BY <2>1, <3>2
      <4>2. valid[c.grant] \in Nat /\ \A g \in 0..MaxGrants : valid[g] \in Nat
        BY <2>1
      <4> HIDE DEF Types, c
      <4>3. QED BY <4>1, <4>2
    <3>3. QED BY <2>2, <3>1, <3>2
  <2>4. cred'.n <= valid'[cred'.grant]
    BY <2>2, <2>3, CredFields
  <2>5. TokenOf(p)'
    <3>1. /\ attempted'[p] = c /\ TokenOf(p) /\ valid'[c.grant] >= valid[c.grant]
          /\ valid[c.grant] \in Nat /\ valid'[c.grant] \in Nat
      BY <2>1, <2>2, <2>3
    <3>2. /\ pc'[p] \in {"persist", "release", "recover"}
          /\ after'[p] \in {after[p], "idle", "check"}
          /\ pc'[p] = "release" => after'[p] # "setError"
      BY <1>6, RefreshStep DEF Leaves, GoesOn
    <3>3. pc'[p] = "persist" => c.n = valid[c.grant] /\ valid'[c.grant] = valid[c.grant] + 1
      BY <1>6, <2>1, RefreshStep DEF Leaves, GoesOn
    <3>4. pc'[p] = "recover" => c.n # valid[c.grant] /\ valid' = valid
      BY <1>6, RefreshStep DEF Leaves, GoesOn
    <3>5. after'[p] \in Outcomes /\ attempted'[p].n <= valid'[attempted'[p].grant]
      BY <2>1, <3>1, <3>2
    <3>6. CASE pc'[p] = "persist" \/ pc'[p] = "recover"
      <4>1. c.n < valid'[c.grant]
        BY <2>1, <3>1, <3>3, <3>4, <3>6
      <4>2. QED BY <3>1, <3>5, <4>1
    <3>7. QED BY <3>2, <3>5, <3>6
  <2>6. QED BY <2>2, <2>3, <2>4, <2>5, TokensKept
<1>7. ASSUME NEW p \in Procs, Persist(p) PROVE Tokens'
  <2> DEFINE c == attempted[p]
  <2>1. /\ c \in Creds /\ c.grant \in 0..MaxGrants /\ c.n \in Nat
        /\ \A g \in 0..MaxGrants : valid[g] \in Nat
    BY CredFields
  <2>2. /\ OnlyMoves(p) /\ valid' = valid /\ attempted' = attempted /\ pc[p] = "persist"
        /\ cred' = cred \/ cred' = Rotated(c)
        /\ pc'[p] \in {"release", "dropCache"} /\ after'[p] \in {after[p], "idle", "check", "invalidate"}
    BY <1>7, PersistStep DEF Leaves, GoesOn
  <2>3. cred'.n <= valid'[cred'.grant]
    BY <2>1, <2>2, RotatedCreds
  <2>4. TokenOf(p)'
    BY <2>1, <2>2
  <2>5. \A g \in 0..MaxGrants : valid'[g] >= valid[g]
    BY <2>1, <2>2
  <2>6. QED BY <2>2, <2>3, <2>4, <2>5, TokensKept
<1>8. ASSUME NEW p \in Procs, DropCache(p) PROVE Tokens'
  BY <1>8, DropCacheStep DEF Leaves, GoesOn, OnlyMoves, TakesRow, Takes, Harmless
<1>9. ASSUME NEW p \in Procs, Recover(p) PROVE Tokens'
  BY <1>9, RecoverStep DEF Leaves, GoesOn, OnlyMoves, TakesRow, Takes, Harmless
<1>10. ASSUME NEW p \in Procs, Release(p) PROVE Tokens'
  BY <1>10 DEF Release, Goto, Answered
<1>11. ASSUME NEW p \in Refreshers, SetError(p) PROVE Tokens'
  BY <1>11 DEF SetError, Goto, Works, Fails
<1>12. ASSUME NEW p \in Requests, CheckTokenVersion(p) PROVE Tokens'
  BY <1>12 DEF CheckTokenVersion, Goto, Answered, Works, Fails
<1>13. ASSUME NEW p \in Requests, SetAccessToken(p) PROVE Tokens'
  BY <1>13 DEF SetAccessToken, Goto, Answered
<1>14. ASSUME NEW p \in Procs \cup {"admin"}, Invalidate(p) PROVE Tokens'
  BY <1>14 DEF Invalidate, Goto, Works, Fails
<1>15. ASSUME Reauthorise PROVE Tokens'
  <2>1. PICK v \in {0, latest + 1} : Write([grant |-> cred.grant + 1, n |-> 0, version |-> v])
    BY <1>15 DEF Reauthorise, NextVersion
  <2>2. /\ cred.grant \in 0..MaxGrants /\ cred.grant + 1 \in 0..MaxGrants
        /\ valid[cred.grant + 1] \in Nat
    BY <1>15, CredFields DEF Reauthorise
  <2>3. cred' = [grant |-> cred.grant + 1, n |-> 0, version |-> v]
    BY <2>1 DEF Write
  <2>4. cred'.n <= valid'[cred'.grant]
    BY <1>15, <2>2, <2>3 DEF Reauthorise
  <2>5. QED BY <1>15, <2>4 DEF Reauthorise, Goto
<1>16. ASSUME ClearError PROVE Tokens'
  BY <1>16 DEF ClearError, Goto
<1>17. ASSUME ComesDue PROVE Tokens'
  BY <1>17 DEF ComesDue
<1>18. ASSUME CacheExpires PROVE Tokens'
  BY <1>18 DEF CacheExpires
<1>19. ASSUME LockLapses PROVE Tokens'
  BY <1>19 DEF LockLapses, Works, Fails
<1>20. ASSUME NEW i, Crash(i) PROVE Tokens'
  BY <1>20 DEF Crash, Fails
<1>21. ASSUME UNCHANGED vars PROVE Tokens'
  BY <1>21 DEF vars
<1>22. QED
  BY <1>1, <1>2, <1>3, <1>4, <1>5, <1>6, <1>7, <1>8, <1>9, <1>10, <1>11, <1>12, <1>13, <1>14,
     <1>15, <1>16, <1>17, <1>18, <1>19, <1>20, <1>21 DEF Next, Refresher, Request, Attempt,
        Admin,
     Procs

-----------------------------------------------------------------------------
(* The lock *)

\* While nothing is lost, whoever is in a refresh is the only one.
LEMMA OthersOutside ==
    ASSUME Types, Clean, CleanRefresh, NEW p \in Procs, pc[p] \in Refreshing
    PROVE  \A q \in Procs : q # p => pc[q] \notin Refreshing
BY DEF CleanRefresh, Alone

\* Then only what p does matters.
LEMMA CleanKept ==
    ASSUME Types, Clean, CleanRefresh, NEW p \in Procs, pc[p] \in Refreshing, OnlyMoves(p),
           status' = status, RowGood', Newest(cred.grant)', Alone(p)'
    PROVE  CleanRefresh'
<1>1. ASSUME NEW q \in Procs, q # p PROVE Alone(q)'
  <2>1. pc'[q] = pc[q] /\ after'[q] = after[q] /\ pc[q] \notin Refreshing /\ ~Refused(q)
    BY <1>1, OthersOutside DEF OnlyMoves, CleanRefresh, Alone
  <2>2. pc'[q] \notin Refreshing /\ pc'[q] \notin {"provider", "persist"}
    BY <2>1 DEF Refreshing
  <2>3. QED BY <2>1, <2>2 DEF Alone, Refused
<1>2. QED BY <1>1 DEF CleanRefresh

\* The row's refresh token is good while nobody has just used it.
LEMMA RowUnused ==
    ASSUME Types, Clean, CleanRefresh, NEW p \in Procs, pc[p] \in Refreshing,
           pc[p] = "persist" => attempted[p] # cred
    PROVE  cred.n = valid[cred.grant]
<1>1. \A q \in Procs : pc[q] = "persist" => q = p
  BY OthersOutside DEF Refreshing
<1>2. QED BY <1>1 DEF CleanRefresh, RowGood

\* While nothing is lost the process with the lock refreshes alone.
LEMMA CleanStep ==
    ASSUME Types, Types', Tokens, CleanRefresh, Next
    PROVE  CleanRefresh'
<1> USE Apart, InitialCreds, OAuthRefreshAssumption
     DEF Types, Tokens, TokenOf, CleanRefresh, RowGood, Alone, Newest, Clean, Refused,
        Refreshing, row, mine
<1>1. ASSUME NEW p \in Refreshers, FindDue(p) PROVE CleanRefresh'
  BY <1>1 DEF FindDue, Goto
<1>2. ASSUME NEW p \in Requests, NeedToken(p) PROVE CleanRefresh'
  BY <1>2 DEF NeedToken, Goto
<1>3. ASSUME NEW p \in Procs, TryLock(p) PROVE CleanRefresh'
  BY <1>3 DEF TryLock, Goto, Works, Fails
<1>4. ASSUME NEW p \in Requests, WaitForCache(p) PROVE CleanRefresh'
  BY <1>4 DEF WaitForCache, Goto, Answered
<1>5. ASSUME NEW p \in Procs, Reread(p) PROVE CleanRefresh'
  <2> SUFFICES ASSUME Clean' PROVE CleanRefresh'
    BY DEF CleanRefresh
  <2> HIDE DEF Types, Tokens, TokenOf, CleanRefresh, RowGood, Alone, Newest, Refused, row, mine
  <2>1. Clean /\ OnlyMoves(p) /\ pc[p] = "reread" /\ pc[p] \in Refreshing /\ status' = status
    BY <1>5, RereadStep DEF Leaves, GoesOn, Harmless, Race, Clean, row
  <2>2. Alone(p) /\ Newest(cred.grant) /\ lock = p /\ p \in releasing
    BY <2>1 DEF CleanRefresh, Alone
  <2>3. cred.n = valid[cred.grant] /\ cred' = cred /\ valid' = valid /\ lock' = p /\ p \in releasing'
    BY <1>5, <2>1, <2>2, RowUnused, RereadStep DEF row
  <2>4. Alone(p)'
    <3>1. CASE GoesOn(p, "provider") /\ attempted' = [attempted EXCEPT ![p] = cred]
      BY <2>2, <2>3, <3>1 DEF GoesOn, Alone, Refused, Types, Newest
    <3>2. CASE Leaves(p, {"idle", "check"})
      BY <2>3, <3>2 DEF Leaves, Alone, Refused
    <3>3. QED BY <1>5, <3>1, <3>2, RereadStep
  <2>5. RowGood' /\ Newest(cred.grant)'
    BY <2>2, <2>3 DEF RowGood, Newest
  <2>6. QED BY <2>1, <2>4, <2>5, CleanKept
<1>6. ASSUME NEW p \in Procs, Refresh(p) PROVE CleanRefresh'
  <2> SUFFICES ASSUME Clean' PROVE CleanRefresh'
    BY DEF CleanRefresh
  <2> HIDE DEF Types, Tokens, TokenOf, CleanRefresh, RowGood, Alone, Newest, Refused, row, mine
  <2>1. Clean /\ OnlyMoves(p) /\ pc[p] = "provider" /\ pc[p] \in Refreshing /\ status' = status
    BY <1>6, RefreshStep DEF Leaves, GoesOn, Harmless, Race, Clean, row
  <2>2. Alone(p) /\ Newest(cred.grant) /\ lock = p /\ p \in releasing
    BY <2>1 DEF CleanRefresh, Alone
  <2> DEFINE c == attempted[p]
  <2>3. /\ c \in Creds /\ c.grant \in 0..MaxGrants /\ c.n \in Nat
        /\ cred.grant \in 0..MaxGrants /\ \A g \in 0..MaxGrants : valid[g] \in Nat
    BY CredFields DEF Types
  <2>4. /\ c.n = valid[c.grant] /\ cred.n = valid[cred.grant]
        /\ c = cred \/ cred.grant > c.grant
        /\ Newest(c.grant)
    BY <2>1, <2>2, RowUnused DEF Alone
  <2>5. cred' = cred /\ attempted' = attempted /\ lock' = p /\ p \in releasing'
    BY <1>6, <2>2, RefreshStep DEF row, mine
  <2>6. CASE GoesOn(p, "persist") /\ valid' = [valid EXCEPT ![c.grant] = valid[c.grant] + 1]
    <3>1. /\ valid'[c.grant] = c.n + 1
          /\ \A g \in 0..MaxGrants : g # c.grant => valid'[g] = valid[g]
      BY <2>3, <2>4, <2>6 DEF Types
    <3>2. Newest(c.grant)' /\ Newest(cred.grant)'
      BY <2>2, <2>3, <2>4, <2>5, <3>1 DEF Newest
    <3>3. Alone(p)'
      BY <2>3, <2>4, <2>5, <2>6, <3>1, <3>2 DEF GoesOn, Alone, Refused
    <3>4. RowGood'
      <4>1. CASE c = cred
        BY <2>5, <2>6, <4>1 DEF RowGood, GoesOn
      <4>2. CASE cred.grant > c.grant
        BY <2>3, <2>4, <2>5, <3>1, <4>2 DEF RowGood
      <4>3. QED BY <2>4, <4>1, <4>2
    <3>5. QED BY <2>1, <3>2, <3>3, <3>4, CleanKept
  <2>7. CASE Leaves(p, {"idle", "check"}) /\ valid' = valid
    <3>1. Alone(p)'
      BY <2>5, <2>7 DEF Leaves, Alone, Refused
    <3>2. RowGood' /\ Newest(cred.grant)'
      BY <2>2, <2>4, <2>5, <2>7 DEF RowGood, Newest
    <3>3. QED BY <2>1, <3>1, <3>2, CleanKept
  <2>8. trouble' # trouble \cup {"lost"}
    BY DEF Clean
  <2>9. QED BY <1>6, <2>4, <2>6, <2>7, <2>8, RefreshStep
<1>7. ASSUME NEW p \in Procs, Persist(p) PROVE CleanRefresh'
  <2> SUFFICES ASSUME Clean' PROVE CleanRefresh'
    BY DEF CleanRefresh
  <2> HIDE DEF Types, Tokens, TokenOf, CleanRefresh, RowGood, Alone, Newest, Refused, row, mine
  <2>1. Clean /\ OnlyMoves(p) /\ pc[p] = "persist" /\ pc[p] \in Refreshing /\ status' = status
    BY <1>7, PersistStep DEF Leaves, GoesOn, Harmless, Race, Clean, row
  <2>2. Alone(p) /\ Newest(cred.grant) /\ lock = p /\ p \in releasing
    BY <2>1 DEF CleanRefresh, Alone
  <2> DEFINE c == attempted[p]
  <2>3. /\ c \in Creds /\ c.grant \in 0..MaxGrants /\ c.n \in Nat
        /\ cred.grant \in 0..MaxGrants /\ \A g \in 0..MaxGrants : valid[g] \in Nat
    BY CredFields DEF Types
  <2>4. c.n + 1 = valid[c.grant] /\ Newest(c.grant)
    BY <2>1, <2>2 DEF Alone
  <2>5. valid' = valid /\ lock' = p /\ p \in releasing'
    BY <1>7, <2>2, PersistStep
  <2>6. /\ pc'[p] \in {"release", "dropCache"}
        /\ pc'[p] = "release" => after'[p] \in {"idle", "check", "invalidate"}
    BY <1>7, PersistStep DEF Leaves, GoesOn
  <2>7. Alone(p)'
    BY <2>5, <2>6 DEF Alone, Refused
  <2>8. RowGood' /\ Newest(cred.grant)'
    <3>1. CASE cred' = Rotated(c)
      <4>1. cred'.grant = c.grant /\ cred'.n = c.n + 1
        BY <2>3, <3>1, RotatedCreds DEF Types
      <4>2. QED BY <2>4, <2>5, <4>1 DEF RowGood, Newest
    <3>2. CASE cred' = cred /\ cred # c
      BY <2>1, <2>2, <2>5, <3>2, RowUnused DEF RowGood, Newest
    <3>3. trouble' # trouble \cup {"lost"}
      BY DEF Clean
    <3>4. QED BY <1>7, <3>1, <3>2, <3>3, PersistStep DEF row
  <2>9. QED BY <2>1, <2>7, <2>8, CleanKept
<1>8. ASSUME NEW p \in Procs, DropCache(p) PROVE CleanRefresh'
  <2> SUFFICES ASSUME Clean' PROVE CleanRefresh'
    BY DEF CleanRefresh
  <2> HIDE DEF Types, Tokens, TokenOf, CleanRefresh, RowGood, Alone, Newest, Refused, row, mine
  <2>1. Clean /\ OnlyMoves(p) /\ pc[p] = "dropCache" /\ pc[p] \in Refreshing /\ status' = status
    BY <1>8, DropCacheStep DEF Leaves, GoesOn, Harmless, Race, Clean, row
  <2>2. Alone(p) /\ Newest(cred.grant) /\ lock = p /\ p \in releasing
    BY <2>1 DEF CleanRefresh, Alone
  <2>3. cred.n = valid[cred.grant] /\ cred' = cred /\ valid' = valid /\ lock' = p /\ p \in releasing'
    BY <1>8, <2>1, <2>2, RowUnused, DropCacheStep DEF row
  <2>4. Alone(p)'
    BY <1>8, <2>3, DropCacheStep DEF Leaves, Alone, Refused
  <2>5. RowGood' /\ Newest(cred.grant)'
    BY <2>2, <2>3 DEF RowGood, Newest
  <2>6. QED BY <2>1, <2>4, <2>5, CleanKept
<1>9. ASSUME NEW p \in Procs, Recover(p) PROVE CleanRefresh'
  BY <1>9, RecoverStep DEF Leaves, GoesOn, OnlyMoves, TakesRow, Takes, Harmless
<1>10. ASSUME NEW p \in Procs, Release(p) PROVE CleanRefresh'
  <2> SUFFICES ASSUME Clean' PROVE CleanRefresh'
    BY DEF CleanRefresh
  <2> HIDE DEF Types, Tokens, TokenOf, CleanRefresh, RowGood, Alone, Newest, Refused, row, mine
  <2>1. /\ Clean /\ pc[p] \in Refreshing /\ cred' = cred /\ valid' = valid /\ status' = status
        /\ OnlyMoves(p) /\ pc'[p] = after[p] /\ after'[p] = "idle"
    BY <1>10 DEF Release, Goto, Clean, row, OnlyMoves, Types
  <2>2. after[p] \in Outcomes /\ after[p] # "setError"
    BY <1>10, <2>1 DEF Tokens, TokenOf, CleanRefresh, Alone, Refused, Release
  <2>3. Alone(p)'
    BY <2>1, <2>2 DEF Alone, Refused, Outcomes
  <2>4. RowGood' /\ Newest(cred.grant)'
    BY <1>10, <2>1, RowUnused DEF CleanRefresh, RowGood, Newest, Release
  <2>5. QED BY <2>1, <2>3, <2>4, CleanKept
<1>11. ASSUME NEW p \in Refreshers, SetError(p) PROVE CleanRefresh'
  BY <1>11 DEF SetError, Goto, Works, Fails
<1>12. ASSUME NEW p \in Requests, CheckTokenVersion(p) PROVE CleanRefresh'
  BY <1>12 DEF CheckTokenVersion, Goto, Answered, Works, Fails
<1>13. ASSUME NEW p \in Requests, SetAccessToken(p) PROVE CleanRefresh'
  BY <1>13 DEF SetAccessToken, Goto, Answered
<1>14. ASSUME NEW p \in Procs \cup {"admin"}, Invalidate(p) PROVE CleanRefresh'
  BY <1>14 DEF Invalidate, Goto, Works, Fails
<1>15. ASSUME Reauthorise PROVE CleanRefresh'
  <2> SUFFICES ASSUME Clean' PROVE CleanRefresh'
    BY DEF CleanRefresh
  <2>1. PICK v \in {0, latest + 1} : Write([grant |-> cred.grant + 1, n |-> 0, version |-> v])
    BY <1>15 DEF Reauthorise, NextVersion
  <2>2. /\ cred.grant \in 0..MaxGrants /\ cred.grant + 1 \in 0..MaxGrants
        /\ valid[cred.grant + 1] \in Nat
    BY <1>15, CredFields DEF Reauthorise
  <2>3. cred' = [grant |-> cred.grant + 1, n |-> 0, version |-> v]
    BY <2>1 DEF Write
  <2> HIDE DEF Types, Tokens, TokenOf, CleanRefresh, RowGood, Alone, Newest, Refused, row, mine
  <2>4. /\ Clean /\ status' = status /\ UNCHANGED <<valid, lock, releasing, attempted, after>>
        /\ \A q \in Procs : pc'[q] = pc[q]
    BY <1>15, <2>1 DEF Reauthorise, Write, Race, Clean, Goto, mine, Types
  <2>5. cred'.grant = cred.grant + 1 /\ cred'.n = 0 /\ \A q \in Procs : attempted[q].grant \in 0..MaxGrants
    BY <2>3, CredFields DEF Types
  <2>6. Newest(cred.grant)
    BY <2>4 DEF CleanRefresh
  <2>7. RowGood' /\ Newest(cred.grant)'
    BY <2>2, <2>4, <2>5, <2>6 DEF RowGood, Newest
  <2>8. ASSUME NEW q \in Procs PROVE Alone(q)'
    <3>1. Alone(q) BY <2>4 DEF CleanRefresh
    <3>2. attempted[q] = cred \/ cred.grant > attempted[q].grant => cred'.grant > attempted'[q].grant
      BY <2>2, <2>4, <2>5
    <3>3. QED BY <2>4, <3>1, <3>2 DEF Alone, Refused, Newest
  <2>9. QED BY <2>4, <2>7, <2>8 DEF CleanRefresh
<1>16. ASSUME ClearError PROVE CleanRefresh'
  BY <1>16 DEF ClearError, Goto
<1>17. ASSUME ComesDue PROVE CleanRefresh'
  BY <1>17 DEF ComesDue
<1>18. ASSUME CacheExpires PROVE CleanRefresh'
  BY <1>18 DEF CacheExpires
<1>19. ASSUME LockLapses PROVE CleanRefresh'
  BY <1>19 DEF LockLapses, Works, Fails
<1>20. ASSUME NEW i, Crash(i) PROVE CleanRefresh'
  BY <1>20 DEF Crash, Fails
<1>21. ASSUME UNCHANGED vars PROVE CleanRefresh'
  BY <1>21 DEF vars
<1>22. QED
  BY <1>1, <1>2, <1>3, <1>4, <1>5, <1>6, <1>7, <1>8, <1>9, <1>10, <1>11, <1>12, <1>13, <1>14,
     <1>15, <1>16, <1>17, <1>18, <1>19, <1>20, <1>21 DEF Next, Refresher, Request, Attempt,
        Admin,
     Procs

-----------------------------------------------------------------------------
(* Versions *)

\* A request takes the row's credentials in hand, or none.
LEMMA VersionsHeld ==
    ASSUME Types, Versions, UNCHANGED row,
           \A q \in Requests : held'[q] \in {held[q], cred, Initial}
    PROVE  Versions'
<1>1. /\ cred.version \in Nat /\ latest \in Nat /\ cred.grant \in Nat
      /\ \A q \in Requests : held[q].version \in Nat
  BY CredFields DEF Types
<1>2. ASSUME NEW q \in Requests
      PROVE  held'[q].version <= latest /\ (Versioned /\ held'[q].version >= cred.version => held'[q] = cred)
  <2>1. CASE held'[q] = Initial
    BY <1>1, <2>1, InitialCreds DEF Versions, Versioned
  <2>2. CASE held'[q] # Initial
    BY <1>1, <2>2 DEF Versions
  <2>3. QED BY <2>1, <2>2
<1>3. QED BY <1>1, <1>2 DEF Versions, Versioned, row

\* A version that is written is later than any other, or the row has none any more.
LEMMA VersionsWritten ==
    ASSUME Types, Versions, cred' \in Creds, latest' \in Nat,
           \/ cred'.version = latest + 1 /\ latest' = latest + 1
           \/ cred'.version = 0 /\ latest' = latest /\ cred'.grant > 0,
           \A q \in Requests : held'[q] \in {held[q], cred'}
    PROVE  Versions'
<1>1. /\ latest \in Nat /\ cred'.version \in Nat /\ cred'.grant \in Nat
      /\ \A q \in Requests : held[q].version \in Nat /\ held[q].version <= latest
  BY CredFields DEF Types, Versions
<1>2. QED BY <1>1 DEF Versions, Versioned

\* A version is written once.
LEMMA VersionsStep ==
    ASSUME Types, Types', Versions, Next
    PROVE  Versions'
<1> USE Apart, InitialCreds, OAuthRefreshAssumption
     DEF Types, Versions, Versioned, row, mine
<1>1. ASSUME NEW p \in Refreshers, FindDue(p) PROVE Versions'
  BY <1>1 DEF FindDue, Goto
<1>2. ASSUME NEW p \in Requests, NeedToken(p) PROVE Versions'
  BY <1>2 DEF NeedToken, Goto
<1>3. ASSUME NEW p \in Procs, TryLock(p) PROVE Versions'
  BY <1>3 DEF TryLock, Goto, Works, Fails
<1>4. ASSUME NEW p \in Requests, WaitForCache(p) PROVE Versions'
  BY <1>4, VersionsHeld DEF WaitForCache, Answered
<1>5. ASSUME NEW p \in Procs, Reread(p) PROVE Versions'
  BY <1>5, VersionsHeld, RereadStep DEF TakesRow, Takes
<1>6. ASSUME NEW p \in Procs, Refresh(p) PROVE Versions'
  BY <1>6, RefreshStep DEF Leaves, GoesOn, OnlyMoves, TakesRow, Takes, Harmless
<1>7. ASSUME NEW p \in Procs, Persist(p) PROVE Versions'
  <2>1. CASE cred' = Rotated(attempted[p]) /\ latest' = latest + 1
    <3>1. \A q \in Requests : held'[q] \in {held[q], cred'}
      BY <1>7, <2>1, PersistStep DEF TakesRow, Takes
    <3>2. cred' \in Creds /\ latest' \in Nat /\ cred'.version = latest + 1
      BY <2>1, RotatedCreds
    <3> HIDE DEF Types, Versions
    <3>3. QED BY <2>1, <3>1, <3>2, VersionsWritten
  <2>2. CASE UNCHANGED row
    <3> HIDE DEF Types, Versions, row
    <3>1. TakesRow(p) \/ (cred' = Rotated(attempted[p]) /\ latest' = latest + 1)
      BY <1>7, PersistStep DEF TakesRow
    <3>2. TakesRow(p) => \A q \in Requests : held'[q] \in {held[q], cred, Initial}
      BY DEF TakesRow, Takes, Types
    <3>3. QED BY <2>1, <2>2, <3>1, <3>2, VersionsHeld
  <2>3. QED BY <1>7, <2>1, <2>2, PersistStep
<1>8. ASSUME NEW p \in Procs, DropCache(p) PROVE Versions'
  BY <1>8, VersionsHeld, DropCacheStep DEF TakesRow, Takes
<1>9. ASSUME NEW p \in Procs, Recover(p) PROVE Versions'
  BY <1>9, VersionsHeld, RecoverStep DEF TakesRow, Takes
<1>10. ASSUME NEW p \in Procs, Release(p) PROVE Versions'
  BY <1>10, VersionsHeld DEF Release, Answered
<1>11. ASSUME NEW p \in Refreshers, SetError(p) PROVE Versions'
  BY <1>11 DEF SetError, Goto, Works, Fails
<1>12. ASSUME NEW p \in Requests, CheckTokenVersion(p) PROVE Versions'
  BY <1>12, VersionsHeld DEF CheckTokenVersion, Answered
<1>13. ASSUME NEW p \in Requests, SetAccessToken(p) PROVE Versions'
  BY <1>13, VersionsHeld DEF SetAccessToken, Answered
<1>14. ASSUME NEW p \in Procs \cup {"admin"}, Invalidate(p) PROVE Versions'
  BY <1>14 DEF Invalidate, Goto, Works, Fails
<1>15. ASSUME Reauthorise PROVE Versions'
  <2>1. PICK v \in {0, latest + 1} : Write([grant |-> cred.grant + 1, n |-> 0, version |-> v])
    BY <1>15 DEF Reauthorise, NextVersion
  <2>2. /\ cred.grant \in 0..MaxGrants /\ cred.grant + 1 \in 0..MaxGrants
        /\ valid[cred.grant + 1] \in Nat
    BY <1>15, CredFields DEF Reauthorise
  <2>3. cred' = [grant |-> cred.grant + 1, n |-> 0, version |-> v]
    BY <2>1 DEF Write
  <2>4. latest' = IF v > latest THEN v ELSE latest
    BY <2>1, <2>3 DEF Write
  <2>5. \A q \in Requests : held'[q] = held[q]
    BY <1>15 DEF Reauthorise
  <2>6. /\ cred' \in Creds /\ latest' \in Nat /\ cred'.grant > 0
        /\ \/ cred'.version = latest + 1 /\ latest' = latest + 1
           \/ cred'.version = 0 /\ latest' = latest
    BY <2>2, <2>3, <2>4
  <2> HIDE DEF Types, Versions
  <2>7. QED BY <2>5, <2>6, VersionsWritten
<1>16. ASSUME ClearError PROVE Versions'
  BY <1>16 DEF ClearError, Goto
<1>17. ASSUME ComesDue PROVE Versions'
  BY <1>17 DEF ComesDue
<1>18. ASSUME CacheExpires PROVE Versions'
  BY <1>18 DEF CacheExpires
<1>19. ASSUME LockLapses PROVE Versions'
  BY <1>19 DEF LockLapses, Works, Fails
<1>20. ASSUME NEW i, Crash(i) PROVE Versions'
  BY <1>20, VersionsHeld DEF Crash
<1>21. ASSUME UNCHANGED vars PROVE Versions'
  BY <1>21 DEF vars
<1>22. QED
  BY <1>1, <1>2, <1>3, <1>4, <1>5, <1>6, <1>7, <1>8, <1>9, <1>10, <1>11, <1>12, <1>13, <1>14,
     <1>15, <1>16, <1>17, <1>18, <1>19, <1>20, <1>21 DEF Next, Refresher, Request, Attempt,
        Admin,
     Procs

-----------------------------------------------------------------------------
(* The cached token *)

\* The row and the cache stay, and p, which had nothing to drop or to write, leaves
\* the refresh or goes on in it.
LEMMA CacheKept ==
    ASSUME Types, Types', CleanCache, NEW p \in Procs, OnlyMoves(p), trouble \subseteq trouble',
           UNCHANGED <<cred, cache>>, \A q \in Requests : q # p => held'[q] = held[q],
           pc[p] \in {"reread", "provider", "persist"},
           pc'[p] \in {"release", "provider", "persist", "recover"}
    PROVE  CleanCache'
<1>1. CASE trouble' = {} /\ Versioned'
  <2>1. trouble = {} /\ Versioned
    BY <1>1 DEF Versioned
  <2>2. \A q \in Requests : pc'[q] = "set" => held'[q] = cred'
    BY <2>1 DEF CleanCache, OnlyMoves, Procs
  <2>3. WriterPending => WriterPending'
    BY DEF WriterPending, OnlyMoves, Procs, Types
  <2>4. QED BY <2>1, <2>2, <2>3 DEF CleanCache
<1>2. QED BY <1>1 DEF CleanCache

\* Whoever leaves another token in the cache than the row's will drop it.
LEMMA CacheStep ==
    ASSUME Types, Types', Tokens, Versions, CleanCache, Next
    PROVE  CleanCache'
<1> USE Apart, InitialCreds, OAuthRefreshAssumption
     DEF Types, CleanCache, Versions, Versioned, WriterPending, row, mine
<1>1. ASSUME NEW p \in Refreshers, FindDue(p) PROVE CleanCache'
  BY <1>1 DEF FindDue, Goto
<1>2. ASSUME NEW p \in Requests, NeedToken(p) PROVE CleanCache'
  BY <1>2 DEF NeedToken, Goto
<1>3. ASSUME NEW p \in Procs, TryLock(p) PROVE CleanCache'
  BY <1>3 DEF TryLock, Goto, Works, Fails
<1>4. ASSUME NEW p \in Requests, WaitForCache(p) PROVE CleanCache'
  BY <1>4 DEF WaitForCache, Goto, Answered
<1>5. ASSUME NEW p \in Procs, Reread(p) PROVE CleanCache'
  <2> HIDE DEF Types, CleanCache, Versions, Versioned, WriterPending, mine
  <2>1. /\ OnlyMoves(p) /\ trouble \subseteq trouble' /\ UNCHANGED <<cred, cache>>
        /\ pc[p] = "reread" /\ pc'[p] \in {"release", "provider"}
    BY <1>5, RereadStep DEF Leaves, GoesOn, Harmless
  <2>2. \A q \in Requests : q # p => held'[q] = held[q]
    BY <1>5, RereadStep DEF TakesRow, Takes, Types
  <2>3. QED BY <2>1, <2>2, CacheKept
<1>6. ASSUME NEW p \in Procs, Refresh(p) PROVE CleanCache'
  <2> HIDE DEF Types, CleanCache, Versions, Versioned, WriterPending
  <2>1. /\ OnlyMoves(p) /\ trouble \subseteq trouble' /\ UNCHANGED <<cred, cache, held>>
        /\ pc[p] = "provider" /\ pc'[p] \in {"release", "persist", "recover"}
    BY <1>6, RefreshStep DEF Leaves, GoesOn, Harmless
  <2>2. QED BY <2>1, CacheKept
<1>7. ASSUME NEW p \in Procs, Persist(p) PROVE CleanCache'
  <2> HIDE DEF Types, CleanCache, Versions, Versioned, WriterPending, row, mine
  <2>1. CASE /\ trouble' = Race /\ OnlyMoves(p) /\ pc'[p] # "set"
             /\ \/ pc'[p] = "release" /\ after'[p] = "check" /\ p \in Requests /\ held'[p] = cred'
                \/ pc'[p] = "release" /\ after'[p] = "invalidate"
                \/ pc'[p] = "dropCache"
    <3>1. SUFFICES ASSUME trouble' = {} PROVE CleanCache'
      BY DEF CleanCache
    <3>2. \A q \in Requests : pc'[q] # "set"
      BY <2>1, <3>1 DEF Race, OnlyMoves
    <3>3. WriterPending'
      BY <2>1 DEF WriterPending, Types
    <3>4. QED BY <3>2, <3>3 DEF CleanCache
  <2>2. CASE Leaves(p, {"idle", "check"}) /\ UNCHANGED row /\ TakesRow(p) /\ Harmless
    <3>1. /\ OnlyMoves(p) /\ trouble \subseteq trouble' /\ UNCHANGED <<cred, cache>>
          /\ pc[p] = "persist" /\ pc'[p] = "release"
      BY <1>7, <2>2, PersistStep DEF Leaves, Harmless, row
    <3>2. \A q \in Requests : q # p => held'[q] = held[q]
      BY <2>2 DEF TakesRow, Takes, Types
    <3>3. QED BY <3>1, <3>2, CacheKept
  <2>3. CASE trouble' = trouble \cup {"lost"}
    BY <2>3 DEF CleanCache
  <2>4. cred' = Rotated(attempted[p]) /\ Takes(p, Rotated(attempted[p])) => p \in Requests /\ held'[p] = cred'
    BY DEF Takes, Types
  <2>5. QED BY <1>7, <2>1, <2>2, <2>3, <2>4, PersistStep DEF Leaves, GoesOn
<1>8. ASSUME NEW p \in Procs, DropCache(p) PROVE CleanCache'
  BY <1>8, DropCacheStep DEF Leaves, GoesOn, OnlyMoves, TakesRow, Takes, Harmless
<1>9. ASSUME NEW p \in Procs, Recover(p) PROVE CleanCache'
  BY <1>9, RecoverStep DEF Leaves, GoesOn, OnlyMoves, TakesRow, Takes, Harmless
<1>10. ASSUME NEW p \in Procs, Release(p) PROVE CleanCache'
  <2> HIDE DEF Types, CleanCache, Versions, Versioned, WriterPending, mine
  <2>1. /\ UNCHANGED <<cred, cache, trouble>> /\ pc[p] = "release" /\ pc'[p] = after[p]
        /\ OnlyMoves(p) /\ after'[p] = "idle"
        /\ after[p] # "idle" => held' = held
        /\ \A q \in Requests : q # p => held'[q] = held[q]
    BY <1>10 DEF Release, Goto, Answered, OnlyMoves, Types, row
  <2>2. after[p] # "set"
    BY DEF Tokens, TokenOf, Outcomes
  <2>3. Versioned' = Versioned
    BY <2>1 DEF Versioned
  <2>4. WriterPending => WriterPending'
    BY <2>1 DEF WriterPending, OnlyMoves, Types, Procs
  <2>5. CASE trouble = {} /\ Versioned
    <3>1. \A q \in Requests : pc'[q] = "set" => held'[q] = cred'
      BY <2>1, <2>2, <2>5 DEF CleanCache, OnlyMoves, Procs
    <3>2. QED BY <2>1, <2>4, <2>5, <3>1 DEF CleanCache
  <2>6. QED BY <2>1, <2>3, <2>5 DEF CleanCache
<1>11. ASSUME NEW p \in Refreshers, SetError(p) PROVE CleanCache'
  BY <1>11 DEF SetError, Goto, Works, Fails
<1>12. ASSUME NEW p \in Requests, CheckTokenVersion(p) PROVE CleanCache'
  <2> HIDE DEF Types, CleanCache, Versions, Versioned, WriterPending, mine
  <2>1. SUFFICES ASSUME trouble' = {}, Versioned' PROVE CleanCache'
    BY DEF CleanCache
  <2>2. /\ UNCHANGED <<cred, cache>> /\ pc[p] = "check" /\ trouble = {}
        /\ pc' = [pc EXCEPT ![p] = IF cred.version > held[p].version THEN "idle" ELSE "set"]
        /\ after' = after /\ (pc'[p] # "idle" => held' = held)
        /\ \A q \in Requests : q # p => held'[q] = held[q]
    BY <1>12, <2>1 DEF CheckTokenVersion, Goto, Answered, Works, Fails, Types, row
  <2>3. Versioned
    BY <2>1, <2>2 DEF Versioned
  <2>4. /\ held[p].version \in Nat /\ cred.version \in Nat
        /\ pc'[p] = IF cred.version > held[p].version THEN "idle" ELSE "set"
        /\ \A q \in Procs \cup {"admin"} : q # p => pc'[q] = pc[q]
    BY <2>2, CredFields DEF Types, Procs
  <2>5. held[p] = cred <=> pc'[p] = "set"
    BY <2>3, <2>4 DEF Versions
  <2>6. \A q \in Requests : pc'[q] = "set" => held'[q] = cred'
    BY <2>2, <2>3, <2>4, <2>5 DEF CleanCache, Procs
  <2>7. WriterPending => WriterPending'
    BY <2>2, <2>4, <2>5 DEF WriterPending, Types, Procs
  <2>8. QED BY <2>2, <2>3, <2>6, <2>7 DEF CleanCache
<1>13. ASSUME NEW p \in Requests, SetAccessToken(p) PROVE CleanCache'
  BY <1>13 DEF SetAccessToken, Goto, Answered
<1>14. ASSUME NEW p \in Procs \cup {"admin"}, Invalidate(p) PROVE CleanCache'
  BY <1>14 DEF Invalidate, Goto, Works, Fails
<1>15. ASSUME Reauthorise PROVE CleanCache'
  BY <1>15 DEF Reauthorise, Goto, Write, NextVersion, Race
<1>16. ASSUME ClearError PROVE CleanCache'
  BY <1>16 DEF ClearError, Goto
<1>17. ASSUME ComesDue PROVE CleanCache'
  BY <1>17 DEF ComesDue
<1>18. ASSUME CacheExpires PROVE CleanCache'
  BY <1>18 DEF CacheExpires
<1>19. ASSUME LockLapses PROVE CleanCache'
  BY <1>19 DEF LockLapses, Works, Fails
<1>20. ASSUME NEW i, Crash(i) PROVE CleanCache'
  BY <1>20 DEF Crash, Fails
<1>21. ASSUME UNCHANGED vars PROVE CleanCache'
  BY <1>21 DEF vars
<1>22. QED
  BY <1>1, <1>2, <1>3, <1>4, <1>5, <1>6, <1>7, <1>8, <1>9, <1>10, <1>11, <1>12, <1>13, <1>14,
     <1>15, <1>16, <1>17, <1>18, <1>19, <1>20, <1>21 DEF Next, Refresher, Request, Attempt,
        Admin,
     Procs

-----------------------------------------------------------------------------
(* What holds of every behaviour *)

\* The program starts in a state of the invariant.
LEMMA InitStep == Init => IInv
<1> SUFFICES ASSUME Init PROVE IInv
  OBVIOUS
<1> USE Apart, InitialCreds, OAuthRefreshAssumption DEF Init
<1>1. Types
  BY DEF Types, Labels, Kinds
<1>2. Cardinality(cache) <= 1
  BY CacheOfOne
<1>3. Tokens
  BY DEF Tokens, TokenOf, Refused, Outcomes
<1>4. CleanRefresh
  BY DEF CleanRefresh, RowGood, Newest, Alone, Refused, Refreshing
<1>5. Versions
  BY DEF Versions
<1>6. CleanCache
  BY DEF CleanCache
<1>7. QED BY <1>1, <1>2, <1>3, <1>4, <1>5, <1>6 DEF IInv, TypeOK, Types

\* The cache is emptied, filled with one token, or left alone.
LEMMA CacheSize ==
    ASSUME Types, Next, Cardinality(cache) <= 1
    PROVE  Cardinality(cache') <= 1
<1>1. cache' = cache \/ cache' = {} \/ \E c : cache' = {c}
  BY DEF Next, Refresher, Request, Attempt, Admin, Procs, FindDue, NeedToken, TryLock,
     WaitForCache, Reread, Refresh, Persist, DropCache, Recover, Release, SetError,
     CheckTokenVersion, SetAccessToken, Invalidate, Reauthorise, ClearError, ComesDue,
     CacheExpires, LockLapses, Crash, row, mine
<1>2. QED BY <1>1, CacheOfOne

\* Every step keeps the invariant.
LEMMA InvStep == IInv /\ [Next]_vars => IInv'
<1> SUFFICES ASSUME IInv, [Next]_vars PROVE IInv'
  OBVIOUS
<1>1. Types
  BY DEF IInv, TypeOK, Types
<1>2. CASE Next
  <2>1. Types' BY <1>1, <1>2, TypeStep
  <2>2. Cardinality(cache') <= 1 BY <1>1, <1>2, CacheSize DEF IInv, TypeOK
  <2>3. QED
    BY <1>1, <1>2, <2>1, <2>2, TokensStep, CleanStep, VersionsStep, CacheStep
    DEF IInv, TypeOK, Types
<1>3. CASE UNCHANGED vars
  BY <1>3 DEF vars, row, mine, IInv, TypeOK, Tokens, TokenOf, Refused, CleanRefresh, Clean,
     RowGood,
     Newest, Alone, Versions, Versioned, CleanCache, WriterPending
<1>4. QED BY <1>2, <1>3

\* The state of the program, tokens behind their grants, one refresher at a time
\* while nothing is lost, versions written once, a cache that is followed up.
THEOREM Invariance == Spec => []IInv
BY InitStep, InvStep, PTL DEF Spec

\* An account is disabled only when its credentials are lost, however many
\* instances, requests and re-authorisations there are.
THEOREM DisabledLost == Spec => []DisabledOnlyWhenLost
<1>1. IInv => DisabledOnlyWhenLost
  BY DEF IInv, CleanRefresh, Clean, DisabledOnlyWhenLost
<1>2. QED BY Invariance, <1>1, PTL

\* The cached token is the row's, or somebody is about to make it so.
THEOREM CacheFollows == Spec => []CacheFollowsRow
<1>1. WriterPending => CachePending
  BY DEF WriterPending, CachePending, Procs
<1>2. IInv => CacheFollowsRow
  BY <1>1, CredFields DEF IInv, TypeOK, CleanCache, Versioned, CacheFollowsRow
<1>3. QED BY Invariance, <1>2, PTL

\* A re-authorisation of a guarded account is never undone: what a refresh writes
\* has the grant of what it replaces.
THEOREM NeverUndone == Spec => ReauthorisationKept
<1>1. ASSUME Types, [Next]_vars, kind = "guarded" PROVE cred'.grant >= cred.grant
  <2>1. cred.grant \in Nat
    BY <1>1, CredFields DEF Types
  <2>2. cred' = cred \/ (\E p \in Procs : Persist(p)) \/ Reauthorise
    BY <1>1 DEF Next, Refresher, Request, Attempt, Admin, Procs, vars, FindDue, NeedToken,
       TryLock, WaitForCache, Reread, Refresh, DropCache, Recover, Release, SetError,
       CheckTokenVersion, SetAccessToken, Invalidate, ClearError, ComesDue, CacheExpires,
       LockLapses, Crash, row, mine
  <2>3. ASSUME NEW p \in Procs, Persist(p), cred' # cred PROVE cred'.grant = cred.grant
    BY <1>1, <2>3, PersistStep, RotatedCreds DEF row, Types
  <2>4. Reauthorise => cred'.grant = cred.grant + 1
    BY DEF Reauthorise, Write
  <2>5. QED BY <2>1, <2>2, <2>3, <2>4
<1>2. IInv /\ [Next]_vars => [kind = "guarded" => cred'.grant >= cred.grant]_vars
  BY <1>1 DEF IInv, TypeOK, Types
<1>3. QED BY Invariance, <1>2, PTL DEF Spec, ReauthorisationKept

\* A guarded account is disabled only with credentials the provider refuses.
THEOREM HealthyStays == Spec => HealthyNotDisabled
<1>1. ASSUME IInv, [Next]_vars, kind = "guarded", status = "active", status' = "error"
      PROVE  cred.n # valid[cred.grant]
  <2>1. PICK p \in Refreshers : SetError(p)
    BY <1>1 DEF Next, Refresher, Request, Attempt, Admin, Procs, vars, FindDue, NeedToken,
       TryLock, WaitForCache, Reread, Refresh, Persist, DropCache, Recover, Release,
       CheckTokenVersion, SetAccessToken, Invalidate, Reauthorise, ClearError, ComesDue,
       CacheExpires, LockLapses, Crash, row, mine, Write
  <2>2. cred = attempted[p] /\ Refused(p) /\ p \in Procs
    BY <1>1, <2>1 DEF SetError, Refused, Procs
  <2>3. cred.n < valid[cred.grant]
    BY <1>1, <2>2 DEF IInv, Tokens, TokenOf
  <2>4. cred.n \in Nat /\ valid[cred.grant] \in Nat
    BY <1>1, CredFields DEF IInv, TypeOK
  <2>5. QED BY <2>3, <2>4
<1>2. IInv /\ [Next]_vars =>
        [kind = "guarded" /\ status = "active" /\ status' = "error" => cred.n # valid[cred.grant]]_vars
  BY <1>1
<1>3. QED BY Invariance, <1>2, PTL DEF Spec, HealthyNotDisabled
===============================================================================
