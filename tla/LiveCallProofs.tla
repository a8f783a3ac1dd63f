--------------------------- MODULE LiveCallProofs ---------------------------
(***************************************************************************)
(* Proofs about one Live call, for any number of sideband connections and  *)
(* any number of failing Redis calls; then about the slots and leases that *)
(* Live calls and requests are admitted with, for any number of them.      *)
(***************************************************************************)
EXTENDS LiveCall, SlotBooks, FiniteSetTheorems, TLAPS

CONSTANTS Instances, MaxWait, MaxAttempts, MaxSlotFaults, MaxCrashes, MaxOverruns

\* The theorems about the slots are of this instance, all of whose parameters are free;
\* its SlotsAssumption is a hypothesis of each.
Slots == INSTANCE ConcurrencySlots WITH MaxFaults <- MaxSlotFaults

USE LiveCallAssumption

-----------------------------------------------------------------------------

\* Every variable keeps its type in every step.
LEMMA TypeStep ==
    ASSUME TypeOK, Creation, [Next]_vars
    PROVE  TypeOK'
<1> USE DEF TypeOK, callVars, Labels, ObserverLabels, ProxyLabels, Goto, Works, Fails
<1>1. ASSUME NEW p \in Procs, AcquireLease(p) PROVE TypeOK'
  <2>1. lease' \in BOOLEAN
    BY <1>1, Zenon DEF AcquireLease
  <2>2. /\ pc' \in [Procs -> Labels] /\ faults' \in 0..MaxFaults
        /\ UNCHANGED <<controller, owner, expired, upstream, logs>>
    BY <1>1 DEF AcquireLease
  <2> QED BY <2>1, <2>2
<1>2. ASSUME NEW p \in Procs, CreateUpstream(p) PROVE TypeOK'
  BY <1>2 DEF CreateUpstream
<1>3. ASSUME NEW p \in Procs, GiveUp(p) PROVE TypeOK'
  <2>1. lease' \in BOOLEAN
    BY <1>3, Zenon DEF GiveUp
  <2>2. /\ pc' \in [Procs -> Labels] /\ faults' \in 0..MaxFaults
        /\ UNCHANGED <<controller, owner, expired, upstream, logs>>
    BY <1>3 DEF GiveUp
  <2> QED BY <2>1, <2>2
<1>4. ASSUME NEW p \in Procs, SaveLiveCall(p) PROVE TypeOK'
  BY <1>4 DEF SaveLiveCall
<1>5. ASSUME NEW p \in Procs, Claim(p) PROVE TypeOK'
  BY <1>5 DEF Claim, ClaimObserver
<1>6. ASSUME NEW p \in Procs, Observe(p) PROVE TypeOK'
  BY <1>6 DEF Observe
<1>7. ASSUME NEW p \in Procs, Dial(p) PROVE TypeOK'
  BY <1>7 DEF Dial
<1>8. ASSUME NEW p \in Procs, Retry(p) PROVE TypeOK'
  BY <1>8 DEF Retry
<1>9. ASSUME NEW p \in Procs, WakeUp(p) PROVE TypeOK'
  BY <1>9 DEF WakeUp
<1>10. ASSUME NEW p \in Procs, PollController(p) PROVE TypeOK'
  BY <1>10 DEF PollController
<1>11. ASSUME NEW p \in Procs, TakeOver(p) PROVE TypeOK'
  BY <1>11 DEF TakeOver, ClaimProxy, MayTakeOver, Creation, Procs
<1>12. ASSUME NEW p \in Procs, ProxyDial(p) PROVE TypeOK'
  BY <1>12 DEF ProxyDial
<1>13. ASSUME NEW p \in Procs, ReleaseController(p) PROVE TypeOK'
  BY <1>13 DEF ReleaseController, ReleaseControl
<1>14. ASSUME NEW p \in Procs, Disconnect(p) PROVE TypeOK'
  BY <1>14 DEF Disconnect, Connected, Proxied
<1>15. ASSUME NEW p \in Procs, SessionEnded(p) PROVE TypeOK'
  BY <1>15 DEF SessionEnded, Connected, Proxied, Over
<1>16. ASSUME NEW p \in Procs, SessionTimesOut(p) PROVE TypeOK'
  BY <1>16 DEF SessionTimesOut, Connected, Proxied, Over
<1>17. ASSUME NEW p \in Procs, Refresh(p) PROVE TypeOK'
  BY <1>17 DEF Refresh, Connected, Proxied, Over, RefreshLease
<1>18. ASSUME NEW p \in Procs, MarkClosed(p) PROVE TypeOK'
  BY <1>18 DEF MarkClosed, CloseRecord
<1>19. ASSUME NEW p \in Procs, ReleaseLease(p) PROVE TypeOK'
  <2>1. lease' \in BOOLEAN
    BY <1>19, Zenon DEF ReleaseLease
  <2>2. /\ pc' \in [Procs -> Labels] /\ faults' \in 0..MaxFaults
        /\ UNCHANGED <<controller, owner, expired, upstream, logs>>
    BY <1>19 DEF ReleaseLease
  <2> QED BY <2>1, <2>2
<1>20. ASSUME NEW p \in Procs, WriteUsageLog(p) PROVE TypeOK'
  BY <1>20 DEF WriteUsageLog
<1>21. ASSUME NEW p \in Procs, Join(p) PROVE TypeOK'
  BY <1>21 DEF Join
<1>22. ASSUME LeaseExpires \/ Expire \/ UpstreamEnds PROVE TypeOK'
  BY <1>22 DEF LeaseExpires, Expire, UpstreamEnds
<1>23. ASSUME UNCHANGED vars PROVE TypeOK'
  BY <1>23 DEF vars
<1>24. QED
  BY <1>1, <1>2, <1>3, <1>4, <1>5, <1>6, <1>7, <1>8, <1>9, <1>10, <1>11, <1>12, <1>13, <1>14,
     <1>15, <1>16, <1>17, <1>18, <1>19, <1>20, <1>21, <1>22, <1>23 DEF Next, ProcessNext

\* The record and the creator go through creation together.
LEMMA CreationStep ==
    ASSUME IInv, [Next]_vars
    PROVE  Creation'
<1> USE DEF IInv, TypeOK, Creation, Created, CreationLabels, callVars, Procs, ProxyLabels,
    Goto, Works
<1>1. ASSUME NEW p \in Procs, AcquireLease(p) PROVE Creation'
  BY <1>1 DEF AcquireLease
<1>2. ASSUME NEW p \in Procs, CreateUpstream(p) PROVE Creation'
  BY <1>2 DEF CreateUpstream
<1>3. ASSUME NEW p \in Procs, GiveUp(p) PROVE Creation'
  BY <1>3 DEF GiveUp
<1>4. ASSUME NEW p \in Procs, SaveLiveCall(p) PROVE Creation'
  BY <1>4 DEF SaveLiveCall
<1>5. ASSUME NEW p \in Procs, Claim(p) PROVE Creation'
  BY <1>5 DEF Claim, ClaimObserver
<1>6. ASSUME NEW p \in Procs, Observe(p) PROVE Creation'
  BY <1>6 DEF Observe
<1>7. ASSUME NEW p \in Procs, Dial(p) PROVE Creation'
  BY <1>7 DEF Dial
<1>8. ASSUME NEW p \in Procs, Retry(p) PROVE Creation'
  BY <1>8 DEF Retry
<1>9. ASSUME NEW p \in Procs, WakeUp(p) PROVE Creation'
  BY <1>9 DEF WakeUp
<1>10. ASSUME NEW p \in Procs, PollController(p) PROVE Creation'
  BY <1>10 DEF PollController
<1>11. ASSUME NEW p \in Procs, TakeOver(p) PROVE Creation'
  BY <1>11 DEF TakeOver, ClaimProxy, MayTakeOver
<1>12. ASSUME NEW p \in Procs, ProxyDial(p) PROVE Creation'
  BY <1>12 DEF ProxyDial
<1>13. ASSUME NEW p \in Procs, ReleaseController(p) PROVE Creation'
  BY <1>13 DEF ReleaseController, ReleaseControl
<1>14. ASSUME NEW p \in Procs, Disconnect(p) PROVE Creation'
  BY <1>14 DEF Disconnect, Connected, Proxied
<1>15. ASSUME NEW p \in Procs, SessionEnded(p) PROVE Creation'
  BY <1>15 DEF SessionEnded, Connected, Proxied, Over
<1>16. ASSUME NEW p \in Procs, SessionTimesOut(p) PROVE Creation'
  BY <1>16 DEF SessionTimesOut, Connected, Proxied, Over
<1>17. ASSUME NEW p \in Procs, Refresh(p) PROVE Creation'
  BY <1>17 DEF Refresh, Connected, Proxied, Over, RefreshLease
<1>18. ASSUME NEW p \in Procs, MarkClosed(p) PROVE Creation'
  BY <1>18 DEF MarkClosed, CloseRecord
<1>19. ASSUME NEW p \in Procs, ReleaseLease(p) PROVE Creation'
  BY <1>19 DEF ReleaseLease
<1>20. ASSUME NEW p \in Procs, WriteUsageLog(p) PROVE Creation'
  BY <1>20 DEF WriteUsageLog
<1>21. ASSUME NEW p \in Procs, Join(p) PROVE Creation'
  BY <1>21 DEF Join
<1>22. ASSUME LeaseExpires \/ Expire \/ UpstreamEnds PROVE Creation'
  BY <1>22 DEF LeaseExpires, Expire, UpstreamEnds
<1>23. ASSUME UNCHANGED vars PROVE Creation'
  BY <1>23 DEF vars
<1>24. QED
  BY <1>1, <1>2, <1>3, <1>4, <1>5, <1>6, <1>7, <1>8, <1>9, <1>10, <1>11, <1>12, <1>13, <1>14,
     <1>15, <1>16, <1>17, <1>18, <1>19, <1>20, <1>21, <1>22, <1>23 DEF Next, ProcessNext

\* Control does not leave a proxy that acts.
LEMMA ProxyStep ==
    ASSUME IInv, [Next]_vars
    PROVE  ProxyControls'
<1> USE DEF IInv, TypeOK, Creation, Created, CreationLabels, ProxyControls, callVars, Procs,
    ProxyLabels, Goto, Works
<1>1. ASSUME NEW p \in Procs, AcquireLease(p) PROVE ProxyControls'
  BY <1>1 DEF AcquireLease
<1>2. ASSUME NEW p \in Procs, CreateUpstream(p) PROVE ProxyControls'
  BY <1>2 DEF CreateUpstream
<1>3. ASSUME NEW p \in Procs, GiveUp(p) PROVE ProxyControls'
  BY <1>3 DEF GiveUp
<1>4. ASSUME NEW p \in Procs, SaveLiveCall(p) PROVE ProxyControls'
  BY <1>4 DEF SaveLiveCall
<1>5. ASSUME NEW p \in Procs, Claim(p) PROVE ProxyControls'
  BY <1>5 DEF Claim, ClaimObserver
<1>6. ASSUME NEW p \in Procs, Observe(p) PROVE ProxyControls'
  BY <1>6 DEF Observe
<1>7. ASSUME NEW p \in Procs, Dial(p) PROVE ProxyControls'
  BY <1>7 DEF Dial
<1>8. ASSUME NEW p \in Procs, Retry(p) PROVE ProxyControls'
  BY <1>8 DEF Retry
<1>9. ASSUME NEW p \in Procs, WakeUp(p) PROVE ProxyControls'
  BY <1>9 DEF WakeUp
<1>10. ASSUME NEW p \in Procs, PollController(p) PROVE ProxyControls'
  BY <1>10 DEF PollController
<1>11. ASSUME NEW p \in Procs, TakeOver(p) PROVE ProxyControls'
  BY <1>11 DEF TakeOver, ClaimProxy, MayTakeOver
<1>12. ASSUME NEW p \in Procs, ProxyDial(p) PROVE ProxyControls'
  BY <1>12 DEF ProxyDial
<1>13. ASSUME NEW p \in Procs, ReleaseController(p) PROVE ProxyControls'
  BY <1>13 DEF ReleaseController, ReleaseControl
<1>14. ASSUME NEW p \in Procs, Disconnect(p) PROVE ProxyControls'
  BY <1>14 DEF Disconnect, Connected, Proxied
<1>15. ASSUME NEW p \in Procs, SessionEnded(p) PROVE ProxyControls'
  BY <1>15 DEF SessionEnded, Connected, Proxied, Over
<1>16. ASSUME NEW p \in Procs, SessionTimesOut(p) PROVE ProxyControls'
  BY <1>16 DEF SessionTimesOut, Connected, Proxied, Over
<1>17. ASSUME NEW p \in Procs, Refresh(p) PROVE ProxyControls'
  BY <1>17 DEF Refresh, Connected, Proxied, Over, RefreshLease
<1>18. ASSUME NEW p \in Procs, MarkClosed(p) PROVE ProxyControls'
  BY <1>18 DEF MarkClosed, CloseRecord
<1>19. ASSUME NEW p \in Procs, ReleaseLease(p) PROVE ProxyControls'
  BY <1>19 DEF ReleaseLease
<1>20. ASSUME NEW p \in Procs, WriteUsageLog(p) PROVE ProxyControls'
  BY <1>20 DEF WriteUsageLog
<1>21. ASSUME NEW p \in Procs, Join(p) PROVE ProxyControls'
  BY <1>21 DEF Join
<1>22. ASSUME LeaseExpires \/ Expire \/ UpstreamEnds PROVE ProxyControls'
  BY <1>22 DEF LeaseExpires, Expire, UpstreamEnds
<1>23. ASSUME UNCHANGED vars PROVE ProxyControls'
  BY <1>23 DEF vars
<1>24. QED
  BY <1>1, <1>2, <1>3, <1>4, <1>5, <1>6, <1>7, <1>8, <1>9, <1>10, <1>11, <1>12, <1>13, <1>14,
     <1>15, <1>16, <1>17, <1>18, <1>19, <1>20, <1>21, <1>22, <1>23 DEF Next, ProcessNext

\* The inductive invariant, and through it the types, in every state.
THEOREM Invariance == Spec => []IInv
<1>1. Init => IInv
  <2> SUFFICES ASSUME Init PROVE IInv
    OBVIOUS
  <2>1. lease \in BOOLEAN /\ expired \in BOOLEAN
    BY Zenon DEF Init
  <2>2. pc \in [Procs -> Labels]
    BY DEF Init, Labels
  <2>3. TypeOK
    BY <2>1, <2>2 DEF Init, TypeOK
  <2>4. Creation /\ ProxyControls
    BY DEF Init, Creation, Created, CreationLabels, ProxyControls, ProxyLabels, Procs
  <2> QED BY <2>3, <2>4 DEF IInv
<1>2. IInv /\ [Next]_vars => IInv'
  BY TypeStep, CreationStep, ProxyStep DEF IInv
<1>3. QED BY <1>1, <1>2, PTL DEF Spec

-----------------------------------------------------------------------------

\* Only a client without a rival takes control.
LEMMA OneProxyStep ==
    ASSUME IInv, OneProxy, [Next]_vars
    PROVE  OneProxy'
<1> USE DEF IInv, TypeOK, Creation, ProxyControls, OneProxy, callVars, Procs, ProxyLabels,
    Goto, Works
<1>1. ASSUME NEW p \in Procs, AcquireLease(p) PROVE OneProxy'
  BY <1>1 DEF AcquireLease
<1>2. ASSUME NEW p \in Procs, CreateUpstream(p) PROVE OneProxy'
  BY <1>2 DEF CreateUpstream
<1>3. ASSUME NEW p \in Procs, GiveUp(p) PROVE OneProxy'
  BY <1>3 DEF GiveUp
<1>4. ASSUME NEW p \in Procs, SaveLiveCall(p) PROVE OneProxy'
  BY <1>4 DEF SaveLiveCall
<1>5. ASSUME NEW p \in Procs, Claim(p) PROVE OneProxy'
  BY <1>5 DEF Claim, ClaimObserver
<1>6. ASSUME NEW p \in Procs, Observe(p) PROVE OneProxy'
  BY <1>6 DEF Observe
<1>7. ASSUME NEW p \in Procs, Dial(p) PROVE OneProxy'
  BY <1>7 DEF Dial
<1>8. ASSUME NEW p \in Procs, Retry(p) PROVE OneProxy'
  BY <1>8 DEF Retry
<1>9. ASSUME NEW p \in Procs, WakeUp(p) PROVE OneProxy'
  BY <1>9 DEF WakeUp
<1>10. ASSUME NEW p \in Procs, PollController(p) PROVE OneProxy'
  BY <1>10 DEF PollController
<1>11. ASSUME NEW p \in Procs, TakeOver(p) PROVE OneProxy'
  BY <1>11 DEF TakeOver, ClaimProxy, MayTakeOver
<1>12. ASSUME NEW p \in Procs, ProxyDial(p) PROVE OneProxy'
  BY <1>12 DEF ProxyDial
<1>13. ASSUME NEW p \in Procs, ReleaseController(p) PROVE OneProxy'
  BY <1>13 DEF ReleaseController, ReleaseControl
<1>14. ASSUME NEW p \in Procs, Disconnect(p) PROVE OneProxy'
  BY <1>14 DEF Disconnect, Connected, Proxied
<1>15. ASSUME NEW p \in Procs, SessionEnded(p) PROVE OneProxy'
  BY <1>15 DEF SessionEnded, Connected, Proxied, Over
<1>16. ASSUME NEW p \in Procs, SessionTimesOut(p) PROVE OneProxy'
  BY <1>16 DEF SessionTimesOut, Connected, Proxied, Over
<1>17. ASSUME NEW p \in Procs, Refresh(p) PROVE OneProxy'
  BY <1>17 DEF Refresh, Connected, Proxied, Over, RefreshLease
<1>18. ASSUME NEW p \in Procs, MarkClosed(p) PROVE OneProxy'
  BY <1>18 DEF MarkClosed, CloseRecord
<1>19. ASSUME NEW p \in Procs, ReleaseLease(p) PROVE OneProxy'
  BY <1>19 DEF ReleaseLease
<1>20. ASSUME NEW p \in Procs, WriteUsageLog(p) PROVE OneProxy'
  BY <1>20 DEF WriteUsageLog
<1>21. ASSUME NEW p \in Procs, Join(p) PROVE OneProxy'
  BY <1>21 DEF Join
<1>22. ASSUME LeaseExpires \/ Expire \/ UpstreamEnds PROVE OneProxy'
  BY <1>22 DEF LeaseExpires, Expire, UpstreamEnds
<1>23. ASSUME UNCHANGED vars PROVE OneProxy'
  BY <1>23 DEF vars
<1>24. QED
  BY <1>1, <1>2, <1>3, <1>4, <1>5, <1>6, <1>7, <1>8, <1>9, <1>10, <1>11, <1>12, <1>13, <1>14,
     <1>15, <1>16, <1>17, <1>18, <1>19, <1>20, <1>21, <1>22, <1>23 DEF Next, ProcessNext

\* No two clients drive the sideband of one call, whatever Redis calls fail.
THEOREM ProxyAlone == Spec => []OneProxy
<1>1. Init => OneProxy
  BY DEF Init, OneProxy, ProxyLabels, Procs
<1>2. IInv /\ OneProxy /\ [Next]_vars => OneProxy'
  BY OneProxyStep
<1>3. QED BY <1>1, <1>2, Invariance, PTL DEF Spec

\* A closed record stays closed, and a lease that is gone stays gone.
THEOREM GoneStays == Spec => GoneForGood
<1>1. IInv /\ [Next]_vars =>
        [/\ controller = "closed" => controller' = "closed"
         /\ controller # "none" /\ ~lease => ~lease']_vars
  <2> DEFINE Gone == /\ controller = "closed" => controller' = "closed"
                     /\ controller # "none" /\ ~lease => ~lease'
  <2> SUFFICES ASSUME IInv, [Next]_vars, ~ UNCHANGED vars PROVE Gone
    OBVIOUS
  <2> USE DEF IInv, TypeOK, Creation, CreationLabels, callVars, Procs, Goto, Works
  <2>1. ASSUME NEW p \in Procs, AcquireLease(p) PROVE Gone
    BY <2>1 DEF AcquireLease
  <2>2. ASSUME NEW p \in Procs, CreateUpstream(p) PROVE Gone
    BY <2>2 DEF CreateUpstream
  <2>3. ASSUME NEW p \in Procs, GiveUp(p) PROVE Gone
    BY <2>3 DEF GiveUp
  <2>4. ASSUME NEW p \in Procs, SaveLiveCall(p) PROVE Gone
    BY <2>4 DEF SaveLiveCall
  <2>5. ASSUME NEW p \in Procs, Claim(p) PROVE Gone
    BY <2>5 DEF Claim, ClaimObserver
  <2>6. ASSUME NEW p \in Procs, Observe(p) PROVE Gone
    BY <2>6 DEF Observe
  <2>7. ASSUME NEW p \in Procs, Dial(p) PROVE Gone
    BY <2>7 DEF Dial
  <2>8. ASSUME NEW p \in Procs, Retry(p) PROVE Gone
    BY <2>8 DEF Retry
  <2>9. ASSUME NEW p \in Procs, WakeUp(p) PROVE Gone
    BY <2>9 DEF WakeUp
  <2>10. ASSUME NEW p \in Procs, PollController(p) PROVE Gone
    BY <2>10 DEF PollController
  <2>11. ASSUME NEW p \in Procs, TakeOver(p) PROVE Gone
    BY <2>11 DEF TakeOver, ClaimProxy, MayTakeOver
  <2>12. ASSUME NEW p \in Procs, ProxyDial(p) PROVE Gone
    BY <2>12 DEF ProxyDial
  <2>13. ASSUME NEW p \in Procs, ReleaseController(p) PROVE Gone
    BY <2>13 DEF ReleaseController, ReleaseControl
  <2>14. ASSUME NEW p \in Procs, Disconnect(p) PROVE Gone
    BY <2>14 DEF Disconnect, Connected, Proxied
  <2>15. ASSUME NEW p \in Procs, SessionEnded(p) PROVE Gone
    BY <2>15 DEF SessionEnded, Connected, Proxied, Over
  <2>16. ASSUME NEW p \in Procs, SessionTimesOut(p) PROVE Gone
    BY <2>16 DEF SessionTimesOut, Connected, Proxied, Over
  <2>17. ASSUME NEW p \in Procs, Refresh(p) PROVE Gone
    BY <2>17 DEF Refresh, Connected, Proxied, Over, RefreshLease
  <2>18. ASSUME NEW p \in Procs, MarkClosed(p) PROVE Gone
    BY <2>18 DEF MarkClosed, CloseRecord
  <2>19. ASSUME NEW p \in Procs, ReleaseLease(p) PROVE Gone
    BY <2>19 DEF ReleaseLease
  <2>20. ASSUME NEW p \in Procs, WriteUsageLog(p) PROVE Gone
    BY <2>20 DEF WriteUsageLog
  <2>21. ASSUME NEW p \in Procs, Join(p) PROVE Gone
    BY <2>21 DEF Join
  <2>22. ASSUME LeaseExpires \/ Expire \/ UpstreamEnds PROVE Gone
    BY <2>22 DEF LeaseExpires, Expire, UpstreamEnds
  <2>23. ASSUME UNCHANGED vars PROVE Gone
    BY <2>23 DEF vars
  <2>24. QED
    BY <2>1, <2>2, <2>3, <2>4, <2>5, <2>6, <2>7, <2>8, <2>9, <2>10, <2>11, <2>12, <2>13,
       <2>14, <2>15, <2>16, <2>17, <2>18, <2>19, <2>20, <2>21, <2>22, <2>23 DEF Next,
       ProcessNext
<1>2. QED BY <1>1, Invariance, PTL DEF Spec, GoneForGood

-----------------------------------------------------------------------------

\* The call is closed and the usage log owed in one step of one process.
LEMMA LogStep ==
    ASSUME ClosingCalls \cap Failable = {}, IInv, LogCounted, [Next]_vars
    PROVE  LogCounted'
<1> DEFINE Kept == /\ Closers' = Closers /\ logs' = logs
                   /\ controller = "closed" <=> controller' = "closed"
<1> USE DEF IInv, TypeOK, Creation, CreationLabels, Closers, ClosingCalls, callVars, Procs,
    Goto, Works, Fails
<1>0. Kept => LogCounted'
  <2> HIDE DEF Closers
  <2> QED BY DEF LogCounted, OneUsageLog, Closers
<1>1. ASSUME NEW p \in Procs, AcquireLease(p) PROVE LogCounted'
  BY <1>0, <1>1 DEF AcquireLease
<1>2. ASSUME NEW p \in Procs, CreateUpstream(p) PROVE LogCounted'
  BY <1>0, <1>2 DEF CreateUpstream
<1>3. ASSUME NEW p \in Procs, GiveUp(p) PROVE LogCounted'
  BY <1>0, <1>3 DEF GiveUp
<1>4. ASSUME NEW p \in Procs, SaveLiveCall(p) PROVE LogCounted'
  BY <1>0, <1>4 DEF SaveLiveCall
<1>5. ASSUME NEW p \in Procs, Claim(p) PROVE LogCounted'
  BY <1>0, <1>5 DEF Claim, ClaimObserver
<1>6. ASSUME NEW p \in Procs, Observe(p) PROVE LogCounted'
  BY <1>0, <1>6 DEF Observe
<1>7. ASSUME NEW p \in Procs, Dial(p) PROVE LogCounted'
  BY <1>0, <1>7 DEF Dial
<1>8. ASSUME NEW p \in Procs, Retry(p) PROVE LogCounted'
  BY <1>0, <1>8 DEF Retry
<1>9. ASSUME NEW p \in Procs, WakeUp(p) PROVE LogCounted'
  BY <1>0, <1>9 DEF WakeUp
<1>10. ASSUME NEW p \in Procs, PollController(p) PROVE LogCounted'
  BY <1>0, <1>10 DEF PollController
<1>11. ASSUME NEW p \in Procs, TakeOver(p) PROVE LogCounted'
  BY <1>0, <1>11 DEF TakeOver, ClaimProxy, MayTakeOver
<1>12. ASSUME NEW p \in Procs, ProxyDial(p) PROVE LogCounted'
  BY <1>0, <1>12 DEF ProxyDial
<1>13. ASSUME NEW p \in Procs, ReleaseController(p) PROVE LogCounted'
  BY <1>0, <1>13 DEF ReleaseController, ReleaseControl
<1>14. ASSUME NEW p \in Procs, Disconnect(p) PROVE LogCounted'
  BY <1>0, <1>14 DEF Disconnect, Connected, Proxied
<1>15. ASSUME NEW p \in Procs, SessionEnded(p) PROVE LogCounted'
  BY <1>0, <1>15 DEF SessionEnded, Connected, Proxied, Over
<1>16. ASSUME NEW p \in Procs, SessionTimesOut(p) PROVE LogCounted'
  BY <1>0, <1>16 DEF SessionTimesOut, Connected, Proxied, Over
<1>17. ASSUME NEW p \in Procs, Refresh(p) PROVE LogCounted'
  BY <1>0, <1>17 DEF Refresh, Connected, Proxied, Over, RefreshLease
<1>18. ASSUME NEW p \in Procs, MarkClosed(p) PROVE LogCounted'
  <2>1. CASE UNCHANGED controller
    BY <1>0, <1>18, <2>1 DEF MarkClosed, CloseRecord
  <2>2. CASE CloseRecord /\ Goto(p, "releaseLease")
    <3>1. logs' = logs /\ controller # "closed" /\ controller' = "closed" /\ p \notin Closers
      BY <1>18, <2>2 DEF MarkClosed, CloseRecord
    <3>2. Closers' = Closers \cup {p}
      BY <1>18, <2>2 DEF MarkClosed, CloseRecord
    <3> HIDE DEF Closers
    <3>3. IsFiniteSet(Closers') /\ Cardinality(Closers') = Cardinality(Closers) + 1
      BY <3>1, <3>2, FS_AddElement DEF LogCounted
    <3>4. Cardinality(Closers) \in Nat
      BY FS_CardinalityType DEF LogCounted
    <3> QED BY <3>1, <3>3, <3>4 DEF LogCounted, OneUsageLog, Closers
  <2> QED BY <1>18, <2>1, <2>2 DEF MarkClosed
<1>19. ASSUME NEW p \in Procs, ReleaseLease(p) PROVE LogCounted'
  BY <1>0, <1>19 DEF ReleaseLease
<1>20. ASSUME NEW p \in Procs, WriteUsageLog(p) PROVE LogCounted'
  <2>1. logs' = logs + 1 /\ controller' = controller /\ p \in Closers
    BY <1>20 DEF WriteUsageLog
  <2>2. Closers' = Closers \ {p}
    BY <1>20 DEF WriteUsageLog
  <2> HIDE DEF Closers
  <2>3. IsFiniteSet(Closers') /\ Cardinality(Closers') = Cardinality(Closers) - 1
    BY <2>1, <2>2, FS_RemoveElement DEF LogCounted
  <2>4. Cardinality(Closers) \in Nat
    BY FS_CardinalityType DEF LogCounted
  <2> QED BY <2>1, <2>3, <2>4 DEF LogCounted, OneUsageLog, Closers
<1>21. ASSUME NEW p \in Procs, Join(p) PROVE LogCounted'
  BY <1>0, <1>21 DEF Join
<1>22. ASSUME LeaseExpires \/ Expire \/ UpstreamEnds PROVE LogCounted'
  BY <1>0, <1>22 DEF LeaseExpires, Expire, UpstreamEnds
<1>23. ASSUME UNCHANGED vars PROVE LogCounted'
  BY <1>0, <1>23 DEF vars
<1>24. QED
  BY <1>1, <1>2, <1>3, <1>4, <1>5, <1>6, <1>7, <1>8, <1>9, <1>10, <1>11, <1>12, <1>13, <1>14,
     <1>15, <1>16, <1>17, <1>18, <1>19, <1>20, <1>21, <1>22, <1>23 DEF Next, ProcessNext

\* One usage log is written, or about to be, once the call is closed and none before.
THEOREM LoggedOnce ==
    ASSUME ClosingCalls \cap Failable = {}
    PROVE  Spec => []OneUsageLog
<1>1. Init => LogCounted
  <2>1. ASSUME Init PROVE Closers = {} /\ logs = 0 /\ controller = "none"
    BY <2>1 DEF Init, Closers, Procs
  <2> QED BY <2>1, FS_EmptySet DEF LogCounted, OneUsageLog, Closers
<1>2. IInv /\ LogCounted /\ [Next]_vars => LogCounted'
  BY LogStep
<1>3. LogCounted => OneUsageLog
  BY DEF LogCounted
<1>4. QED BY <1>1, <1>2, <1>3, Invariance, PTL DEF Spec

-----------------------------------------------------------------------------

\* Whoever lets go of the call has seen that somebody else has it.
LEMMA WatchStep ==
    ASSUME (ClosingCalls \cup HandOverCalls) \cap Failable = {}, IInv, WatchKept, [Next]_vars
    PROVE  WatchKept'
<1> USE DEF IInv, TypeOK, Creation, CreationLabels, Created, ProxyControls, WatchKept,
    ClosingCalls, HandOverCalls, ObserverLabels, ProxyLabels, callVars, Procs, Goto, Works, Fails
<1>1. ASSUME NEW p \in Procs, AcquireLease(p) PROVE WatchKept'
  BY <1>1 DEF AcquireLease
<1>2. ASSUME NEW p \in Procs, CreateUpstream(p) PROVE WatchKept'
  BY <1>2 DEF CreateUpstream
<1>3. ASSUME NEW p \in Procs, GiveUp(p) PROVE WatchKept'
  BY <1>3 DEF GiveUp
<1>4. ASSUME NEW p \in Procs, SaveLiveCall(p) PROVE WatchKept'
  BY <1>4 DEF SaveLiveCall
<1>5. ASSUME NEW p \in Procs, Claim(p) PROVE WatchKept'
  BY <1>5 DEF Claim, ClaimObserver
<1>6. ASSUME NEW p \in Procs, Observe(p) PROVE WatchKept'
  BY <1>6 DEF Observe
<1>7. ASSUME NEW p \in Procs, Dial(p) PROVE WatchKept'
  BY <1>7 DEF Dial
<1>8. ASSUME NEW p \in Procs, Retry(p) PROVE WatchKept'
  BY <1>8 DEF Retry
<1>9. ASSUME NEW p \in Procs, WakeUp(p) PROVE WatchKept'
  BY <1>9 DEF WakeUp
<1>10. ASSUME NEW p \in Procs, PollController(p) PROVE WatchKept'
  BY <1>10 DEF PollController
<1>11. ASSUME NEW p \in Procs, TakeOver(p) PROVE WatchKept'
  BY <1>11 DEF TakeOver, ClaimProxy, MayTakeOver
<1>12. ASSUME NEW p \in Procs, ProxyDial(p) PROVE WatchKept'
  BY <1>12 DEF ProxyDial
<1>13. ASSUME NEW p \in Procs, ReleaseController(p) PROVE WatchKept'
  BY <1>13 DEF ReleaseController, ReleaseControl
<1>14. ASSUME NEW p \in Procs, Disconnect(p) PROVE WatchKept'
  BY <1>14 DEF Disconnect, Connected, Proxied
<1>15. ASSUME NEW p \in Procs, SessionEnded(p) PROVE WatchKept'
  BY <1>15 DEF SessionEnded, Connected, Proxied, Over
<1>16. ASSUME NEW p \in Procs, SessionTimesOut(p) PROVE WatchKept'
  BY <1>16 DEF SessionTimesOut, Connected, Proxied, Over
<1>17. ASSUME NEW p \in Procs, Refresh(p) PROVE WatchKept'
  BY <1>17 DEF Refresh, Connected, Proxied, Over, RefreshLease
<1>18. ASSUME NEW p \in Procs, MarkClosed(p) PROVE WatchKept'
  BY <1>18 DEF MarkClosed, CloseRecord
<1>19. ASSUME NEW p \in Procs, ReleaseLease(p) PROVE WatchKept'
  BY <1>19 DEF ReleaseLease
<1>20. ASSUME NEW p \in Procs, WriteUsageLog(p) PROVE WatchKept'
  BY <1>20 DEF WriteUsageLog
<1>21. ASSUME NEW p \in Procs, Join(p) PROVE WatchKept'
  BY <1>21 DEF Join
<1>22. ASSUME LeaseExpires \/ Expire \/ UpstreamEnds PROVE WatchKept'
  BY <1>22 DEF LeaseExpires, Expire, UpstreamEnds
<1>23. ASSUME UNCHANGED vars PROVE WatchKept'
  BY <1>23 DEF vars
<1>24. QED
  BY <1>1, <1>2, <1>3, <1>4, <1>5, <1>6, <1>7, <1>8, <1>9, <1>10, <1>11, <1>12, <1>13, <1>14,
     <1>15, <1>16, <1>17, <1>18, <1>19, <1>20, <1>21, <1>22, <1>23 DEF Next, ProcessNext

\* An open call is never left alone.
THEOREM NeverAlone ==
    ASSUME (ClosingCalls \cup HandOverCalls) \cap Failable = {}
    PROVE  Spec => []Watched
<1>1. Init => WatchKept
  BY DEF Init, WatchKept, Created
<1>2. IInv /\ WatchKept /\ [Next]_vars => WatchKept'
  BY WatchStep
<1>3. IInv /\ WatchKept => Watched
  BY DEF IInv, TypeOK, Watched, WatchKept, ObserverLabels, Created
<1>4. QED BY <1>1, <1>2, <1>3, Invariance, PTL DEF Spec

-----------------------------------------------------------------------------
(* The slots that requests and Live calls are admitted with *)

\* The instance counts as FiniteSets does.
LEMMA SlotsCount ==
    /\ \A S : Slots!IsFiniteSet(S) <=> IsFiniteSet(S)
    /\ \A S : Slots!Cardinality(S) = Cardinality(S)
<1>1. \A S : Slots!IsFiniteSet(S) <=> IsFiniteSet(S)
  BY Zenon DEF Slots!IsFiniteSet, IsFiniteSet
<1>2. \A S : Slots!Cardinality(S) = Cardinality(S)
  BY Zenon DEF Slots!Cardinality, Cardinality
<1>3. QED BY <1>1, <1>2

\* The instance keeps the books that SlotBooks states the properties of.
LEMMA SameBooks ==
    /\ Slots!LimitRespected <=> LimitRespected
    /\ Slots!Accounted <=> Accounted
<1>1. /\ \A labels : Slots!At(labels) = At(labels)
      /\ \A p : Slots!Lease(p) = Lease(p)
  BY DEF Slots!At, Slots!Procs, At, Slots!Lease, Lease
<1>2. Slots!Occupants = Occupants
  BY <1>1 DEF Slots!Occupants, Occupants
<1>3. Slots!LimitRespected <=> LimitRespected
  BY <1>2, SlotsCount DEF Slots!LimitRespected, LimitRespected
<1>4. Slots!Accounted <=> Accounted
  BY <1>1, SlotsCount
     DEF Slots!Accounted, Accounted, Slots!WaitLabels, WaitLabels, Slots!SlotLabels, SlotLabels,
         Slots!LeaseLabels, LeaseLabels
<1>5. QED BY <1>3, <1>4

\* Requests, and so what they hold, are finitely many.
LEMMA SlotsFinite ==
    ASSUME Slots!SlotsAssumption, Slots!TypeOK
    PROVE  /\ IsFiniteSet(Slots!Procs) /\ IsFiniteSet(slots) /\ IsFiniteSet(live)
           /\ \A labels : IsFiniteSet(Slots!At(labels))
<1>1. IsFiniteSet(Slots!Procs)
  BY SlotsCount, FS_Union DEF Slots!SlotsAssumption, Slots!Procs
<1>2. IsFiniteSet(slots)
  BY <1>1, FS_Subset DEF Slots!TypeOK
<1>3. IsFiniteSet(live)
  <2>1. IsFiniteSet(1..MaxAttempts)
    BY FS_Interval DEF Slots!SlotsAssumption
  <2>2. IsFiniteSet(Calls \X (1..MaxAttempts))
    BY <2>1, SlotsCount, FS_Product DEF Slots!SlotsAssumption
  <2>3. QED BY <2>2, FS_Subset DEF Slots!TypeOK
<1>4. ASSUME NEW labels PROVE IsFiniteSet(Slots!At(labels))
  BY <1>1, FS_Subset DEF Slots!At, Slots!Procs
<1>5. QED BY <1>1, <1>2, <1>3, <1>4

\* There are no more holders than slots and leases.
LEMMA HoldersCounted ==
    ASSUME Slots!SlotsAssumption, Slots!TypeOK
    PROVE  /\ IsFiniteSet(Slots!Holders)
           /\ Cardinality(Slots!Holders) <= Cardinality(slots) + Cardinality(live)
<1> DEFINE owners == {l[1] : l \in live}
           first == [l \in live |-> l[1]]
<1>1. first \in Surjection(live, owners)
  BY DEF Surjection
<1>2. IsFiniteSet(slots) /\ IsFiniteSet(live)
  BY SlotsFinite
<1>3. IsFiniteSet(owners) /\ Cardinality(owners) <= Cardinality(live)
  <2> HIDE DEF owners, first
  <2>1. QED BY <1>1, <1>2, FS_Surjection
<1>4. Slots!Holders = slots \cup owners
  BY DEF Slots!Holders
<1> HIDE DEF owners, first
<1>5. /\ IsFiniteSet(slots \cup owners)
      /\ Cardinality(slots \cup owners) = Cardinality(slots) + Cardinality(owners) - Cardinality(slots \cap owners)
  BY <1>2, <1>3, FS_Union
<1>6. IsFiniteSet(slots \cap owners)
  BY <1>2, FS_Intersection
<1>7. /\ Cardinality(slots) \in Nat /\ Cardinality(live) \in Nat
      /\ Cardinality(owners) \in Nat /\ Cardinality(slots \cap owners) \in Nat
  BY <1>2, <1>3, <1>6, FS_CardinalityType
<1>8. QED BY <1>3, <1>4, <1>5, <1>7

\* Every variable keeps its type in every step.
LEMMA SlotsTypeStep ==
    ASSUME Slots!SlotsAssumption, Slots!TypeOK, [Slots!Next]_(Slots!vars)
    PROVE  Slots!TypeOK'
<1>0. /\ MaxAttempts \in Nat \ {0} /\ MaxSlotFaults \in Nat /\ MaxCrashes \in Nat
      /\ Slots!Procs = Requests \cup Calls
  BY DEF Slots!SlotsAssumption, Slots!Procs
<1> USE <1>0 DEF Slots!TypeOK, Slots!Goto, Slots!Works, Slots!Fails, Slots!bounds, Slots!redisVars,
          Slots!Labels, Slots!WaitLabels, Slots!SlotLabels, Slots!LeaseLabels
<1>1. ASSUME NEW p \in Slots!Procs, Slots!TryAcquire(p) PROVE Slots!TypeOK'
  <2>1. slots' \subseteq Slots!Procs
    BY <1>1 DEF Slots!TryAcquire, Slots!Enter
  <2>2. /\ place' \in [Slots!Procs -> Slots!Labels] /\ failures' \in 0..MaxSlotFaults
        /\ UNCHANGED <<live, waiting, attempt, overrun, crashes>>
    BY <1>1 DEF Slots!TryAcquire
  <2>3. QED BY <2>1, <2>2
<1>2. ASSUME NEW p \in Slots!Procs, Slots!IncrementWait(p) PROVE Slots!TypeOK'
  BY <1>2 DEF Slots!IncrementWait
<1>3. ASSUME NEW p \in Slots!Procs, Slots!Poll(p) PROVE Slots!TypeOK'
  BY <1>3 DEF Slots!Poll, Slots!Enter
<1>4. ASSUME NEW p \in Slots!Procs, Slots!GiveUpWaiting(p) PROVE Slots!TypeOK'
  BY <1>4 DEF Slots!GiveUpWaiting
<1>5. ASSUME NEW p \in Slots!Procs, Slots!DecrementWait(p) PROVE Slots!TypeOK'
  BY <1>5 DEF Slots!DecrementWait
<1>6. ASSUME NEW p \in Slots!Procs, Slots!Finish(p) PROVE Slots!TypeOK'
  BY <1>6 DEF Slots!Finish
<1>7. ASSUME NEW p \in Slots!Procs, Slots!Release(p) PROVE Slots!TypeOK'
  BY <1>7 DEF Slots!Release
<1>8. ASSUME NEW p \in Calls, Slots!AcquireLease(p) PROVE Slots!TypeOK'
  BY <1>8 DEF Slots!AcquireLease, Slots!EnterLease, Slots!Lease
<1>9. ASSUME NEW p \in Calls, Slots!CreateUpstream(p) PROVE Slots!TypeOK'
  BY <1>9 DEF Slots!CreateUpstream
<1>10. ASSUME NEW p \in Calls, Slots!UndoLease(p) PROVE Slots!TypeOK'
  BY <1>10 DEF Slots!UndoLease, Slots!DropLease
<1>11. ASSUME NEW p \in Calls, Slots!EndSession(p) PROVE Slots!TypeOK'
  BY <1>11 DEF Slots!EndSession
<1>12. ASSUME NEW p \in Calls, Slots!ReleaseLive(p) PROVE Slots!TypeOK'
  BY <1>12 DEF Slots!ReleaseLive, Slots!DropLease
<1>13. ASSUME NEW p \in Slots!Procs, Slots!SlotExpires(p) PROVE Slots!TypeOK'
  BY <1>13 DEF Slots!SlotExpires
<1>14. ASSUME NEW l \in live, Slots!LeaseExpires(l) PROVE Slots!TypeOK'
  BY <1>14 DEF Slots!LeaseExpires
<1>15. ASSUME Slots!WaitExpires PROVE Slots!TypeOK'
  BY <1>15 DEF Slots!WaitExpires
<1>16. ASSUME NEW S, Slots!Crash(S) PROVE Slots!TypeOK'
  BY <1>16 DEF Slots!Crash
<1>17. ASSUME UNCHANGED Slots!vars PROVE Slots!TypeOK'
  BY <1>17 DEF Slots!vars
<1>18. QED
  BY <1>1, <1>2, <1>3, <1>4, <1>5, <1>6, <1>7, <1>8, <1>9, <1>10, <1>11, <1>12, <1>13, <1>14,
     <1>15, <1>16, <1>17 DEF Slots!Next, Slots!RequestNext, Slots!CallNext

\* Who has entered keeps its slot, or its lease, until it gives it back or outlives it.
LEMMA EnteredStep ==
    ASSUME Slots!SlotsAssumption, Slots!TypeOK, Slots!Entered, [Slots!Next]_(Slots!vars)
    PROVE  Slots!Entered'
<1>0. /\ Requests \cap Calls = {} /\ Slots!Procs = Requests \cup Calls
      /\ place \in [Slots!Procs -> Slots!Labels] /\ attempt \in [Calls -> 1..MaxAttempts]
      /\ \A l \in live : l[1] \in Calls
  BY DEF Slots!SlotsAssumption, Slots!Procs, Slots!TypeOK
<1> USE <1>0 DEF Slots!Entered, Slots!Goto, Slots!Works, Slots!Fails, Slots!bounds,
          Slots!redisVars, Slots!SlotLabels, Slots!LeaseLabels, Slots!Lease
<1>1. ASSUME NEW p \in Slots!Procs, Slots!TryAcquire(p) PROVE Slots!Entered'
  <2>1. CASE Slots!Enter(p) /\ UNCHANGED overrun
             /\ Slots!Goto(p, IF p \in Calls THEN "lease" ELSE "running")
    BY <1>1, <2>1 DEF Slots!TryAcquire, Slots!Enter
  <2>2. CASE (Slots!Enter(p) \/ UNCHANGED slots) /\ UNCHANGED overrun
             /\ (Slots!Goto(p, "done") \/ Slots!Goto(p, "increment"))
    BY <1>1, <2>2 DEF Slots!TryAcquire, Slots!Enter
  <2>3. QED BY <1>1, <2>1, <2>2 DEF Slots!TryAcquire
<1>2. ASSUME NEW p \in Slots!Procs, Slots!IncrementWait(p) PROVE Slots!Entered'
  BY <1>2 DEF Slots!IncrementWait
<1>3. ASSUME NEW p \in Slots!Procs, Slots!Poll(p) PROVE Slots!Entered'
  BY <1>3 DEF Slots!Poll, Slots!Enter
<1>4. ASSUME NEW p \in Slots!Procs, Slots!GiveUpWaiting(p) PROVE Slots!Entered'
  BY <1>4 DEF Slots!GiveUpWaiting
<1>5. ASSUME NEW p \in Slots!Procs, Slots!DecrementWait(p) PROVE Slots!Entered'
  BY <1>5 DEF Slots!DecrementWait
<1>6. ASSUME NEW p \in Slots!Procs, Slots!Finish(p) PROVE Slots!Entered'
  BY <1>6 DEF Slots!Finish
<1>7. ASSUME NEW p \in Slots!Procs, Slots!Release(p) PROVE Slots!Entered'
  BY <1>7 DEF Slots!Release
<1>8. ASSUME NEW p \in Calls, Slots!AcquireLease(p) PROVE Slots!Entered'
  BY <1>8 DEF Slots!AcquireLease, Slots!EnterLease
<1>9. ASSUME NEW p \in Calls, Slots!CreateUpstream(p) PROVE Slots!Entered'
  BY <1>9 DEF Slots!CreateUpstream
<1>10. ASSUME NEW p \in Calls, Slots!UndoLease(p) PROVE Slots!Entered'
  <2>1. /\ place[p] = "undo" /\ UNCHANGED <<slots, overrun>>
        /\ \A l \in live : l # <<p, attempt[p]>> => l \in live'
    BY <1>10 DEF Slots!UndoLease, Slots!DropLease
  <2>2. /\ place'[p] \in {"release", "lease"}
        /\ \A q \in Slots!Procs : q # p => place'[q] = place[q]
        /\ \A q \in Calls : q # p => attempt'[q] = attempt[q]
    BY <1>10 DEF Slots!UndoLease
  <2>3. \A q \in Requests : place'[q] \notin {"create", "created", "undo", "session", "releaseLive", "lease"}
    BY <2>2
  <2>4. ASSUME NEW q \in Slots!Procs \ overrun, place'[q] \in {"create", "created", "session"}
        PROVE  <<q, attempt'[q]>> \in live'
    BY <2>1, <2>2, <2>3, <2>4
  <2>5. QED BY <2>1, <2>2, <2>3, <2>4
<1>11. ASSUME NEW p \in Calls, Slots!EndSession(p) PROVE Slots!Entered'
  BY <1>11 DEF Slots!EndSession
<1>12. ASSUME NEW p \in Calls, Slots!ReleaseLive(p) PROVE Slots!Entered'
  BY <1>12 DEF Slots!ReleaseLive, Slots!DropLease
<1>13. ASSUME NEW p \in Slots!Procs, Slots!SlotExpires(p) PROVE Slots!Entered'
  BY <1>13 DEF Slots!SlotExpires, Slots!Gone
<1>14. ASSUME NEW l \in live, Slots!LeaseExpires(l) PROVE Slots!Entered'
  BY <1>14 DEF Slots!LeaseExpires
<1>15. ASSUME Slots!WaitExpires PROVE Slots!Entered'
  BY <1>15 DEF Slots!WaitExpires
<1>16. ASSUME NEW S, Slots!Crash(S) PROVE Slots!Entered'
  BY <1>16 DEF Slots!Crash
<1>17. ASSUME UNCHANGED Slots!vars PROVE Slots!Entered'
  BY <1>17 DEF Slots!vars
<1>18. QED
  BY <1>1, <1>2, <1>3, <1>4, <1>5, <1>6, <1>7, <1>8, <1>9, <1>10, <1>11, <1>12, <1>13, <1>14,
     <1>15, <1>16, <1>17 DEF Slots!Next, Slots!RequestNext, Slots!CallNext

\* Where nobody enters and no overrun is forgotten there are no more holders than before.
LEMMA FewerHolders ==
    ASSUME Slots!SlotsAssumption, Slots!TypeOK, Slots!HoldersLimited,
           Slots!Holders' \ overrun' \subseteq Slots!Holders \ overrun
    PROVE  Slots!HoldersLimited'
<1> DEFINE before == Slots!Holders \ overrun
           after == Slots!Holders' \ overrun'
<1>1. IsFiniteSet(before)
  BY HoldersCounted, FS_Subset
<1>2. Cardinality(before) <= Max
  BY SlotsCount DEF Slots!HoldersLimited
<1>3. Max \in Nat
  BY DEF Slots!SlotsAssumption
<1> HIDE DEF before, after
<1>4. after \in SUBSET before
  BY DEF before, after
<1>5. IsFiniteSet(after) /\ Cardinality(after) <= Cardinality(before)
  BY <1>1, <1>4, FS_Subset
<1>6. Cardinality(after) <= Max
  BY <1>1, <1>2, <1>3, <1>5, FS_CardinalityType
<1>7. QED BY <1>6, SlotsCount DEF after, Slots!HoldersLimited

\* Who enters finds room for one more.
LEMMA EnterKeeps ==
    ASSUME Slots!SlotsAssumption, Slots!TypeOK, NEW p \in Slots!Procs, Slots!Enter(p),
           UNCHANGED <<live, overrun>>
    PROVE  Slots!HoldersLimited'
<1> DEFINE before == Slots!Holders
           after == Slots!Holders' \ overrun'
<1>1. IsFiniteSet(before) /\ Cardinality(before) <= Cardinality(slots) + Cardinality(live)
  BY HoldersCounted
<1>2. Cardinality(slots) + Cardinality(live) < Max
  BY SlotsCount DEF Slots!Enter, Slots!HasRoom
<1>3. after \in SUBSET (before \cup {p})
  BY DEF Slots!Holders, Slots!Enter
<1> HIDE DEF before, after
<1>4. /\ IsFiniteSet(before \cup {p})
      /\ Cardinality(before \cup {p}) = IF p \in before THEN Cardinality(before) ELSE Cardinality(before) + 1
  BY <1>1, FS_AddElement
<1>5. IsFiniteSet(after) /\ Cardinality(after) <= Cardinality(before \cup {p})
  BY <1>3, <1>4, FS_Subset
<1>6. /\ Cardinality(slots) \in Nat /\ Cardinality(live) \in Nat
      /\ Cardinality(before) \in Nat /\ Cardinality(after) \in Nat /\ Max \in Nat
  BY <1>1, <1>5, SlotsFinite, FS_CardinalityType DEF Slots!SlotsAssumption
<1>7. Cardinality(after) <= Max
  BY <1>1, <1>2, <1>4, <1>5, <1>6
<1>8. QED BY <1>7, SlotsCount DEF after, Slots!HoldersLimited

\* The limit counts those who hold a slot or a lease and have not outlived it.
LEMMA HoldersStep ==
    ASSUME Slots!SlotsAssumption, Slots!IInv, [Slots!Next]_(Slots!vars)
    PROVE  Slots!HoldersLimited'
<1> DEFINE Shrinks == slots' \subseteq slots /\ live' \subseteq live /\ overrun \subseteq overrun'
<1> USE DEF Slots!IInv, Slots!Works, Slots!Fails, Slots!bounds, Slots!redisVars
<1>0. ASSUME Shrinks PROVE Slots!HoldersLimited'
  BY <1>0, FewerHolders DEF Slots!Holders
<1>1. ASSUME NEW p \in Slots!Procs, Slots!TryAcquire(p) \/ Slots!Poll(p)
      PROVE  Slots!HoldersLimited'
  <2>1. Shrinks \/ (Slots!Enter(p) /\ UNCHANGED <<live, overrun>>)
    BY <1>1 DEF Slots!TryAcquire, Slots!Poll
  <2>2. QED BY <1>0, <2>1, EnterKeeps
<1>2. ASSUME NEW p \in Calls, Slots!AcquireLease(p) PROVE Slots!HoldersLimited'
  <2>1. CASE Slots!EnterLease(p) /\ UNCHANGED <<slots, overrun>>
    <3>1. p \in slots \/ p \in overrun
      BY <1>2 DEF Slots!AcquireLease, Slots!Entered, Slots!SlotLabels, Slots!Procs
    <3>2. Slots!Holders' \ overrun' \subseteq Slots!Holders \ overrun
      BY <2>1, <3>1 DEF Slots!Holders, Slots!EnterLease, Slots!Lease
    <3>3. QED BY <3>2, FewerHolders
  <2>2. CASE Shrinks
    BY <1>0, <2>2
  <2>3. QED BY <1>2, <2>1, <2>2 DEF Slots!AcquireLease
<1>3. ASSUME NEW p \in Slots!Procs,
             \/ Slots!IncrementWait(p) \/ Slots!GiveUpWaiting(p) \/ Slots!DecrementWait(p)
             \/ Slots!Finish(p) \/ Slots!Release(p) \/ Slots!SlotExpires(p)
      PROVE  Slots!HoldersLimited'
  <2>1. Shrinks
    BY <1>3
    DEF Slots!IncrementWait, Slots!GiveUpWaiting, Slots!DecrementWait, Slots!Finish,
        Slots!Release, Slots!SlotExpires
  <2>2. QED BY <1>0, <2>1
<1>4. ASSUME NEW p \in Calls,
             \/ Slots!CreateUpstream(p) \/ Slots!UndoLease(p) \/ Slots!EndSession(p)
             \/ Slots!ReleaseLive(p)
      PROVE  Slots!HoldersLimited'
  <2>1. Shrinks
    BY <1>4
    DEF Slots!CreateUpstream, Slots!UndoLease, Slots!EndSession, Slots!ReleaseLive,
        Slots!DropLease
  <2>2. QED BY <1>0, <2>1
<1>5. ASSUME \/ \E l \in live : Slots!LeaseExpires(l)
             \/ Slots!WaitExpires \/ (\E S \in Instances : Slots!Crash(S))
             \/ UNCHANGED Slots!vars
      PROVE  Slots!HoldersLimited'
  <2>1. Shrinks
    BY <1>5 DEF Slots!LeaseExpires, Slots!WaitExpires, Slots!Crash, Slots!vars
  <2>2. QED BY <1>0, <2>1
<1>6. QED
  BY <1>1, <1>2, <1>3, <1>4, <1>5 DEF Slots!Next, Slots!RequestNext, Slots!CallNext

\* The beginning has the invariant.
LEMMA SlotsInit ==
    ASSUME Slots!SlotsAssumption
    PROVE  Slots!Init => Slots!IInv /\ Slots!Accounted
<1> SUFFICES ASSUME Slots!Init PROVE Slots!IInv /\ Slots!Accounted
  OBVIOUS
<1> USE DEF Slots!Init
<1>1. Slots!TypeOK
  BY DEF Slots!TypeOK, Slots!SlotsAssumption, Slots!Labels
<1>2. Slots!Entered
  BY DEF Slots!Entered, Slots!SlotLabels, Slots!LeaseLabels, Slots!Procs
<1>3. Slots!HoldersLimited
  <2>1. Slots!Holders \ overrun = {}
    BY DEF Slots!Holders
  <2>2. Cardinality({}) = 0 /\ Max \in Nat
    BY FS_EmptySet DEF Slots!SlotsAssumption
  <2> HIDE DEF Slots!Init
  <2>3. Slots!Cardinality(Slots!Holders \ overrun) = 0
    BY <2>1, <2>2, SlotsCount
  <2>4. QED BY <2>2, <2>3 DEF Slots!HoldersLimited
<1>4. Slots!Accounted
  <2>1. /\ Slots!At(Slots!WaitLabels) = {} /\ Slots!At(Slots!SlotLabels) = {}
        /\ Slots!At(Slots!LeaseLabels) = {}
    BY DEF Slots!At, Slots!Procs, Slots!WaitLabels, Slots!SlotLabels, Slots!LeaseLabels
  <2>2. QED BY <2>1, SlotsCount, FS_EmptySet DEF Slots!Accounted
<1>5. QED BY <1>1, <1>2, <1>3, <1>4 DEF Slots!IInv

\* The invariant holds in every state.
THEOREM SlotsInvariance ==
    ASSUME Slots!SlotsAssumption
    PROVE  Slots!Spec => []Slots!IInv
<1>1. Slots!Init => Slots!IInv
  BY SlotsInit
<1>2. Slots!IInv /\ [Slots!Next]_(Slots!vars) => Slots!IInv'
  BY SlotsTypeStep, EnteredStep, HoldersStep DEF Slots!IInv
<1>3. QED BY <1>1, <1>2, PTL DEF Slots!Spec

\* The limit is respected: whoever uses the resource holds a slot or a lease, or has
\* outlived it.
THEOREM LimitKept ==
    ASSUME Slots!SlotsAssumption
    PROVE  Slots!Spec => []LimitRespected
<1>1. Slots!IInv => LimitRespected
  <2> SUFFICES ASSUME Slots!IInv PROVE Slots!LimitRespected
    BY SameBooks
  <2> DEFINE users == Slots!Occupants \ overrun
             held == Slots!Holders \ overrun
  <2>1. users \in SUBSET held
    <3>1. ASSUME NEW p \in users PROVE p \in Slots!Holders
      <4>1. p \in Slots!Procs \ overrun /\ (p \in slots \/ Slots!Lease(p) \in live)
        BY DEF Slots!IInv, Slots!Entered, Slots!Occupants, Slots!At, Slots!Procs, Slots!SlotLabels
      <4>2. Slots!Lease(p)[1] = p
        BY DEF Slots!Lease
      <4>3. QED BY <4>1, <4>2 DEF Slots!Holders
    <3>2. QED BY <3>1
  <2>2. IsFiniteSet(held)
    BY HoldersCounted, FS_Subset DEF Slots!IInv
  <2>3. Cardinality(held) <= Max /\ Max \in Nat
    BY SlotsCount DEF Slots!IInv, Slots!HoldersLimited, Slots!SlotsAssumption
  <2> HIDE DEF users, held
  <2>4. IsFiniteSet(users) /\ Cardinality(users) <= Cardinality(held)
    BY <2>1, <2>2, FS_Subset
  <2>5. Cardinality(users) <= Max
    BY <2>2, <2>3, <2>4, FS_CardinalityType
  <2>6. QED BY <2>5, SlotsCount DEF users, Slots!LimitRespected
<1>2. QED BY <1>1, SlotsInvariance, PTL

-----------------------------------------------------------------------------
(* Every way out of a request gives back what it took *)

\* A step of p out of the wait queue, or within it.
LEMMA WaitersSame ==
    ASSUME Slots!TypeOK, NEW p \in Slots!Procs, NEW label, Slots!Goto(p, label),
           place[p] \in Slots!WaitLabels <=> label \in Slots!WaitLabels
    PROVE  Slots!At(Slots!WaitLabels)' = Slots!At(Slots!WaitLabels)
BY DEF Slots!TypeOK, Slots!Goto, Slots!At, Slots!Procs, Slots!WaitLabels

\* Somebody begins to wait, or ceases to.
LEMMA WaitersChange ==
    ASSUME Slots!SlotsAssumption, Slots!TypeOK, NEW p \in Slots!Procs, NEW label,
           Slots!Goto(p, label)
    PROVE  LET before == Cardinality(Slots!At(Slots!WaitLabels))
               after == Cardinality(Slots!At(Slots!WaitLabels)')
           IN  /\ before \in Nat /\ after \in Nat
               /\ place[p] \notin Slots!WaitLabels /\ label \in Slots!WaitLabels =>
                     after = before + 1
               /\ place[p] \in Slots!WaitLabels /\ label \notin Slots!WaitLabels =>
                     after = before - 1
<1> DEFINE before == Slots!At(Slots!WaitLabels)
           after == Slots!At(Slots!WaitLabels)'
<1>1. IsFiniteSet(before)
  BY SlotsFinite
<1>2. /\ place[p] \notin Slots!WaitLabels /\ label \in Slots!WaitLabels =>
            p \notin before /\ after = before \cup {p}
      /\ place[p] \in Slots!WaitLabels /\ label \notin Slots!WaitLabels =>
            p \in before /\ after = before \ {p}
      /\ after \in SUBSET (before \cup {p})
  BY DEF Slots!TypeOK, Slots!Goto, Slots!At, Slots!Procs, Slots!WaitLabels
<1> HIDE DEF before, after
<1>3. IsFiniteSet(before \cup {p})
  BY <1>1, FS_AddElement
<1>4. IsFiniteSet(after)
  BY <1>2, <1>3, FS_Subset
<1>5. Cardinality(before) \in Nat /\ Cardinality(after) \in Nat
  BY <1>1, <1>4, FS_CardinalityType
<1>6. QED BY <1>1, <1>2, <1>5, FS_AddElement, FS_RemoveElement DEF before, after

\* Those who wait are counted, but for as many as calls have failed.
Counted == Cardinality(Slots!At(Slots!WaitLabels)) <= waiting + failures

\* The queue is as it was, and so are its count and the failures, or one has failed.
StillCounted ==
    /\ Slots!At(Slots!WaitLabels)' = Slots!At(Slots!WaitLabels)
    /\ waiting' = waiting /\ failures' \in {failures, failures + 1}

\* One joins the queue, and is counted or the call that should count it has failed.
OneJoins ==
    /\ Cardinality(Slots!At(Slots!WaitLabels)') = Cardinality(Slots!At(Slots!WaitLabels)) + 1
    /\ waiting' + failures' >= waiting + failures + 1

\* One leaves the queue, and the count goes down by one at most.
OneLeaves ==
    /\ Cardinality(Slots!At(Slots!WaitLabels)') = Cardinality(Slots!At(Slots!WaitLabels)) - 1
    /\ waiting' \in {waiting, waiting - 1}
    /\ failures' \in {failures, failures + 1}

\* In each of these cases those who wait stay counted.
LEMMA CountedKept ==
    ASSUME waiting \in Nat, waiting' \in Nat, failures \in Nat, failures' \in Nat,
           Cardinality(Slots!At(Slots!WaitLabels)) \in Nat, Counted,
           StillCounted \/ OneJoins \/ OneLeaves
    PROVE  Counted'
<1>1. CASE StillCounted
  BY <1>1 DEF Counted, StillCounted
<1>2. CASE OneJoins
  <2> DEFINE before == Cardinality(Slots!At(Slots!WaitLabels))
             after == Cardinality(Slots!At(Slots!WaitLabels)')
  <2>1. PICK w \in Nat, f \in Nat : w = waiting' /\ f = failures'
    OBVIOUS
  <2>2. before \in Nat /\ before <= waiting + failures
    BY Zenon DEF Counted
  <2>3. after = before + 1 /\ w + f >= waiting + failures + 1
    BY <1>2, <2>1, Zenon DEF OneJoins
  <2> HIDE DEF before, after
  <2>4. after <= w + f
    BY <2>2, <2>3
  <2>5. QED BY <2>1, <2>4, Zenon DEF Counted, after
<1>3. CASE OneLeaves
  BY <1>3 DEF Counted, OneLeaves
<1>4. QED BY <1>1, <1>2, <1>3

\* What each call does to the queue and its count.
LEMMA CallCounts ==
    ASSUME Slots!SlotsAssumption, Slots!TypeOK, NEW p \in Slots!Procs,
           Slots!RequestNext(p) \/ (p \in Calls /\ Slots!CallNext(p))
    PROVE  StillCounted \/ OneJoins \/ OneLeaves
<1> USE DEF Slots!Works, Slots!Fails, Slots!bounds, Slots!redisVars
<1>0. waiting \in Nat /\ failures \in Nat
  BY DEF Slots!TypeOK
<1>1. ASSUME NEW label, Slots!Goto(p, label), waiting' = waiting,
             place[p] \in Slots!WaitLabels <=> label \in Slots!WaitLabels,
             failures' \in {failures, failures + 1}
      PROVE  StillCounted
  BY <1>1, WaitersSame DEF StillCounted
<1>2. CASE Slots!IncrementWait(p)
  <2>1. \/ Slots!Goto(p, "done") /\ waiting' = waiting /\ failures' = failures
        \/ Slots!Goto(p, "poll") /\ waiting' = waiting + 1 /\ failures' = failures
        \/ Slots!Goto(p, "poll") /\ waiting' \in {waiting, waiting + 1}
           /\ failures' = failures + 1
    BY <1>2 DEF Slots!IncrementWait
  <2>2. place[p] \notin Slots!WaitLabels
    BY <1>2 DEF Slots!IncrementWait, Slots!WaitLabels
  <2>3. CASE Slots!Goto(p, "done") /\ waiting' = waiting /\ failures' = failures
    BY <1>1, <2>2, <2>3 DEF Slots!WaitLabels
  <2>4. CASE Slots!Goto(p, "poll") /\ waiting' + failures' >= waiting + failures + 1
    BY <2>2, <2>4, WaitersChange DEF OneJoins, Slots!WaitLabels
  <2>5. QED BY <1>0, <2>1, <2>3, <2>4
<1>3. CASE Slots!DecrementWait(p)
  <2>1. PICK label \in {"running", "done"} : Slots!Goto(p, label)
    BY <1>3 DEF Slots!DecrementWait
  <2>2. place[p] \in Slots!WaitLabels /\ label \notin Slots!WaitLabels
    BY <1>3 DEF Slots!DecrementWait, Slots!WaitLabels
  <2>3. /\ waiting' \in {waiting, IF waiting > 0 THEN waiting - 1 ELSE 0}
        /\ failures' \in {failures, failures + 1}
    BY <1>3 DEF Slots!DecrementWait
  <2>4. waiting' \in {waiting, waiting - 1}
    BY <1>0, <2>3
  <2>5. QED BY <2>1, <2>2, <2>3, <2>4, WaitersChange DEF OneLeaves
<1>4. CASE \/ Slots!TryAcquire(p) \/ Slots!Poll(p) \/ Slots!GiveUpWaiting(p)
           \/ Slots!Finish(p) \/ Slots!Release(p)
  <2>1. waiting' = waiting /\ failures' \in {failures, failures + 1}
    BY <1>4
    DEF Slots!TryAcquire, Slots!Poll, Slots!GiveUpWaiting, Slots!Finish, Slots!Release
  <2>2. PICK label : /\ Slots!Goto(p, label)
                     /\ place[p] \in Slots!WaitLabels <=> label \in Slots!WaitLabels
    BY <1>4
    DEF Slots!TryAcquire, Slots!Poll, Slots!GiveUpWaiting, Slots!Finish, Slots!Release,
        Slots!WaitLabels
  <2>3. QED BY <1>1, <2>1, <2>2
<1>5. CASE p \in Calls /\ Slots!CallNext(p)
  <2>1. /\ waiting' = waiting /\ failures' \in {failures, failures + 1}
        /\ place[p] \notin Slots!WaitLabels
    BY <1>5
    DEF Slots!CallNext, Slots!AcquireLease, Slots!CreateUpstream, Slots!UndoLease,
        Slots!EndSession, Slots!ReleaseLive, Slots!DropLease, Slots!WaitLabels
  <2>2. PICK label : Slots!Goto(p, label) /\ label \notin Slots!WaitLabels
    BY <1>5
    DEF Slots!CallNext, Slots!AcquireLease, Slots!CreateUpstream, Slots!UndoLease,
        Slots!EndSession, Slots!ReleaseLive, Slots!WaitLabels
  <2>3. QED BY <1>1, <2>1, <2>2
<1>6. QED BY <1>2, <1>3, <1>4, <1>5 DEF Slots!RequestNext

\* Every step keeps those who wait counted.
LEMMA CountedStep ==
    ASSUME Slots!SlotsAssumption, Slots!TypeOK, Counted, [Slots!Next]_(Slots!vars)
    PROVE  Counted'
<1>0. /\ waiting \in Nat /\ waiting' \in Nat /\ failures \in Nat /\ failures' \in Nat
      /\ IsFiniteSet(Slots!At(Slots!WaitLabels))
      /\ Cardinality(Slots!At(Slots!WaitLabels)) \in Nat
  BY SlotsTypeStep, SlotsFinite, FS_CardinalityType DEF Slots!TypeOK
<1>1. CASE \E p \in Slots!Procs : Slots!RequestNext(p) \/ (p \in Calls /\ Slots!CallNext(p))
  BY <1>0, <1>1, CallCounts, CountedKept
<1>2. CASE \/ \E p \in Slots!Procs : Slots!SlotExpires(p)
           \/ (\E l \in live : Slots!LeaseExpires(l)) \/ UNCHANGED Slots!vars
  <2>1. UNCHANGED <<place, waiting, failures>>
    BY <1>2 DEF Slots!SlotExpires, Slots!LeaseExpires, Slots!vars, Slots!redisVars, Slots!bounds
  <2>2. StillCounted
    BY <2>1 DEF StillCounted, Slots!At, Slots!Procs
  <2>3. QED BY <1>0, <2>2, CountedKept
<1>3. CASE Slots!WaitExpires
  <2>1. Slots!At(Slots!WaitLabels)' = {}
    BY <1>3 DEF Slots!WaitExpires, Slots!At, Slots!Procs
  <2>2. QED BY <1>0, <2>1, FS_EmptySet DEF Counted
<1>4. CASE \E S \in Instances : Slots!Crash(S)
  <2>1. /\ Slots!At(Slots!WaitLabels)' \in SUBSET Slots!At(Slots!WaitLabels)
        /\ waiting' = waiting /\ failures' = failures
    BY <1>4 DEF Slots!Crash, Slots!At, Slots!Procs, Slots!WaitLabels, Slots!redisVars
  <2>2. /\ Cardinality(Slots!At(Slots!WaitLabels)') <= Cardinality(Slots!At(Slots!WaitLabels))
        /\ Cardinality(Slots!At(Slots!WaitLabels)') \in Nat
    BY <1>0, <2>1, FS_Subset, FS_CardinalityType
  <2>3. QED BY <1>0, <2>1, <2>2 DEF Counted
<1>5. QED
  BY <1>1, <1>2, <1>3, <1>4 DEF Slots!Next, Slots!Procs

\* Without failures, crashes and overruns the three keys say who is there.
Exactly ==
    /\ slots = Slots!At(Slots!SlotLabels)
    /\ live = {Slots!Lease(p) : p \in Slots!At(Slots!LeaseLabels)}
    /\ waiting = Cardinality(Slots!At(Slots!WaitLabels))

\* The members of the slots key follow a step that enters, leaves or does neither.
LEMMA SlotsFollow ==
    ASSUME Slots!TypeOK, slots = Slots!At(Slots!SlotLabels),
           NEW p \in Slots!Procs, NEW label, Slots!Goto(p, label),
           \/ label \in Slots!SlotLabels /\ slots' = slots \cup {p}
           \/ label \notin Slots!SlotLabels /\ slots' = slots \ {p}
           \/ (place[p] \in Slots!SlotLabels <=> label \in Slots!SlotLabels) /\ slots' = slots
    PROVE  slots' = Slots!At(Slots!SlotLabels)'
BY DEF Slots!TypeOK, Slots!Goto, Slots!At, Slots!Procs, Slots!SlotLabels

\* So do the leases, of the attempt each call is at.
LEMMA LeasesFollow ==
    ASSUME Slots!TypeOK, live = {Slots!Lease(q) : q \in Slots!At(Slots!LeaseLabels)},
           NEW p \in Slots!Procs, NEW label, Slots!Goto(p, label),
           \/ label \in Slots!LeaseLabels /\ attempt' = attempt /\ live' = live \cup {Slots!Lease(p)}
           \/ /\ label \notin Slots!LeaseLabels /\ live' = live \ {Slots!Lease(p)}
              /\ \A q \in Slots!At(Slots!LeaseLabels) : q # p => attempt'[q] = attempt[q]
           \/ /\ place[p] \in Slots!LeaseLabels <=> label \in Slots!LeaseLabels
              /\ attempt' = attempt /\ live' = live
    PROVE  live' = {Slots!Lease(q) : q \in Slots!At(Slots!LeaseLabels)}'
<1> USE DEF Slots!TypeOK, Slots!Goto, Slots!At, Slots!Procs, Slots!LeaseLabels, Slots!Lease
<1>1. CASE label \in Slots!LeaseLabels /\ attempt' = attempt /\ live' = live \cup {Slots!Lease(p)}
  BY <1>1
<1>2. CASE /\ label \notin Slots!LeaseLabels /\ live' = live \ {Slots!Lease(p)}
           /\ \A q \in Slots!At(Slots!LeaseLabels) : q # p => attempt'[q] = attempt[q]
  BY <1>2
<1>3. CASE /\ place[p] \in Slots!LeaseLabels <=> label \in Slots!LeaseLabels
           /\ attempt' = attempt /\ live' = live
  BY <1>3
<1>4. QED BY <1>1, <1>2, <1>3

\* And the count of the queue.
LEMMA WaitersFollow ==
    ASSUME Slots!SlotsAssumption, Slots!TypeOK,
           waiting = Cardinality(Slots!At(Slots!WaitLabels)),
           NEW p \in Slots!Procs, NEW label, Slots!Goto(p, label),
           \/ place[p] \notin Slots!WaitLabels /\ label \in Slots!WaitLabels /\ waiting' = waiting + 1
           \/ /\ place[p] \in Slots!WaitLabels /\ label \notin Slots!WaitLabels
              /\ waiting' = IF waiting > 0 THEN waiting - 1 ELSE 0
           \/ (place[p] \in Slots!WaitLabels <=> label \in Slots!WaitLabels) /\ waiting' = waiting
    PROVE  waiting' = Cardinality(Slots!At(Slots!WaitLabels)')
<1>1. CASE place[p] \notin Slots!WaitLabels /\ label \in Slots!WaitLabels /\ waiting' = waiting + 1
  BY <1>1, WaitersChange
<1>2. CASE /\ place[p] \in Slots!WaitLabels /\ label \notin Slots!WaitLabels
           /\ waiting' = IF waiting > 0 THEN waiting - 1 ELSE 0
  <2>1. /\ Cardinality(Slots!At(Slots!WaitLabels)') = waiting - 1
        /\ Cardinality(Slots!At(Slots!WaitLabels)') \in Nat /\ waiting \in Nat
    BY <1>2, WaitersChange
  <2>2. waiting > 0
    BY <2>1
  <2>3. QED BY <1>2, <2>1, <2>2
<1>3. CASE (place[p] \in Slots!WaitLabels <=> label \in Slots!WaitLabels) /\ waiting' = waiting
  BY <1>3, WaitersSame
<1>4. QED BY <1>1, <1>2, <1>3

\* What is taken by each call, and given back.
LEMMA CallExact ==
    ASSUME Slots!SlotsAssumption, Slots!TypeOK, Slots!Entered, Exactly, UNCHANGED Slots!bounds,
           NEW p \in Slots!Procs, Slots!RequestNext(p) \/ (p \in Calls /\ Slots!CallNext(p))
    PROVE  Exactly'
<1> DEFINE Quiet(label) == /\ place[p] \in Slots!SlotLabels <=> label \in Slots!SlotLabels
                           /\ place[p] \in Slots!LeaseLabels <=> label \in Slots!LeaseLabels
                           /\ place[p] \in Slots!WaitLabels <=> label \in Slots!WaitLabels
<1> USE DEF Slots!WaitLabels, Slots!SlotLabels, Slots!LeaseLabels
<1>0. ~Slots!Fails
  BY DEF Slots!Fails, Slots!bounds, Slots!TypeOK
<1>1. ASSUME NEW label, Slots!Goto(p, label), Quiet(label),
             UNCHANGED <<slots, live, waiting, attempt>>
      PROVE  Exactly'
  BY <1>1, SlotsFollow, LeasesFollow, WaitersFollow DEF Exactly
<1>2. CASE Slots!TryAcquire(p)
  <2>1. CASE Slots!Enter(p) /\ Slots!Goto(p, IF p \in Calls THEN "lease" ELSE "running")
    <3>1. PICK label \in {"lease", "running"} : Slots!Goto(p, label)
      BY <2>1
    <3>2. /\ slots' = slots \cup {p} /\ UNCHANGED <<live, waiting, attempt>>
          /\ place[p] = "try"
      BY <1>2, <2>1 DEF Slots!TryAcquire, Slots!Enter
    <3>3. QED BY <3>1, <3>2, SlotsFollow, LeasesFollow, WaitersFollow DEF Exactly
  <2>2. CASE UNCHANGED slots /\ Slots!Goto(p, IF p \in Calls THEN "done" ELSE "increment")
    <3>1. PICK label \in {"done", "increment"} : Slots!Goto(p, label)
      BY <2>2
    <3>2. UNCHANGED <<slots, live, waiting, attempt>> /\ place[p] = "try"
      BY <1>2, <2>2 DEF Slots!TryAcquire
    <3>3. QED BY <1>1, <3>1, <3>2
  <2>3. QED BY <1>0, <1>2, <2>1, <2>2 DEF Slots!TryAcquire
<1>3. CASE Slots!IncrementWait(p)
  <2>1. /\ place[p] = "increment" /\ UNCHANGED <<slots, live, attempt>>
        /\ \/ waiting' = waiting + 1 /\ Slots!Goto(p, "poll")
           \/ waiting' = waiting /\ Slots!Goto(p, "done")
    BY <1>0, <1>3 DEF Slots!IncrementWait
  <2>2. QED BY <2>1, SlotsFollow, LeasesFollow, WaitersFollow DEF Exactly
<1>4. CASE Slots!Poll(p)
  <2>1. /\ place[p] = "poll" /\ UNCHANGED <<live, waiting, attempt>>
        /\ slots' = slots \cup {p} /\ Slots!Goto(p, "granted")
    BY <1>0, <1>4 DEF Slots!Poll, Slots!Enter
  <2>2. QED BY <2>1, SlotsFollow, LeasesFollow, WaitersFollow DEF Exactly
<1>5. CASE Slots!DecrementWait(p)
  <2>1. /\ UNCHANGED <<slots, live, attempt>>
        /\ waiting' = IF waiting > 0 THEN waiting - 1 ELSE 0
        /\ \/ place[p] = "granted" /\ Slots!Goto(p, "running")
           \/ place[p] = "leave" /\ Slots!Goto(p, "done")
    BY <1>0, <1>5 DEF Slots!DecrementWait
  <2>2. QED BY <2>1, SlotsFollow, LeasesFollow, WaitersFollow DEF Exactly
<1>6. CASE Slots!GiveUpWaiting(p) \/ Slots!Finish(p)
  <2>1. /\ UNCHANGED <<slots, live, waiting, attempt>>
        /\ \/ place[p] = "poll" /\ Slots!Goto(p, "leave")
           \/ place[p] = "running" /\ Slots!Goto(p, "release")
    BY <1>6 DEF Slots!GiveUpWaiting, Slots!Finish, Slots!redisVars
  <2>2. QED BY <1>1, <2>1
<1>7. CASE Slots!Release(p)
  <2>1. /\ UNCHANGED <<live, waiting, attempt>> /\ slots' = slots \ {p}
        /\ \/ place[p] = "created" /\ Slots!Goto(p, "session")
           \/ place[p] = "release" /\ Slots!Goto(p, "done")
    BY <1>0, <1>7 DEF Slots!Release
  <2>2. QED BY <2>1, SlotsFollow, LeasesFollow, WaitersFollow DEF Exactly
<1>8. CASE Slots!AcquireLease(p)
  <2>1. /\ place[p] = "lease" /\ UNCHANGED <<slots, waiting, attempt>>
        /\ \/ live' = live \cup {Slots!Lease(p)} /\ Slots!Goto(p, "create")
           \/ live' = live /\ Slots!Goto(p, "release")
    BY <1>0, <1>8 DEF Slots!AcquireLease, Slots!EnterLease
  <2>2. QED BY <2>1, SlotsFollow, LeasesFollow, WaitersFollow DEF Exactly
<1>9. CASE Slots!CreateUpstream(p) \/ Slots!EndSession(p)
  <2>1. /\ UNCHANGED <<slots, live, waiting, attempt>>
        /\ \/ place[p] = "create" /\ (Slots!Goto(p, "created") \/ Slots!Goto(p, "undo"))
           \/ place[p] = "session" /\ Slots!Goto(p, "releaseLive")
    BY <1>9 DEF Slots!CreateUpstream, Slots!EndSession, Slots!redisVars
  <2>2. QED BY <1>1, <2>1
<1>10. CASE p \in Calls /\ Slots!UndoLease(p)
  <2>1. /\ place[p] = "undo" /\ UNCHANGED <<slots, waiting>> /\ live' = live \ {Slots!Lease(p)}
        /\ Slots!Goto(p, "release") \/ Slots!Goto(p, "lease")
    BY <1>0, <1>10 DEF Slots!UndoLease, Slots!DropLease
  <2>2. \A q \in Slots!At(Slots!LeaseLabels) : q # p => attempt'[q] = attempt[q]
    <3>1. \A q \in Slots!At(Slots!LeaseLabels) : q \in Calls
      BY DEF Slots!At, Slots!Procs, Slots!Entered
    <3>2. \A q \in Calls : q # p => attempt'[q] = attempt[q]
      BY <1>10 DEF Slots!UndoLease, Slots!TypeOK
    <3>3. QED BY <3>1, <3>2
  <2>3. QED BY <2>1, <2>2, SlotsFollow, LeasesFollow, WaitersFollow DEF Exactly
<1>11. CASE Slots!ReleaseLive(p)
  <2>1. /\ place[p] = "releaseLive" /\ UNCHANGED <<slots, waiting, attempt>>
        /\ live' = live \ {Slots!Lease(p)} /\ Slots!Goto(p, "done")
    BY <1>0, <1>11 DEF Slots!ReleaseLive, Slots!DropLease
  <2>2. QED BY <2>1, SlotsFollow, LeasesFollow, WaitersFollow DEF Exactly
<1>12. QED
  BY <1>2, <1>3, <1>4, <1>5, <1>6, <1>7, <1>8, <1>9, <1>10, <1>11
  DEF Slots!RequestNext, Slots!CallNext

\* While nothing failed, crashed or was outlived, no entry expires and the keys stay exact.
LEMMA ExactStep ==
    ASSUME Slots!SlotsAssumption, Slots!TypeOK, Slots!Entered, [Slots!Next]_(Slots!vars),
           failures = 0 /\ crashes = 0 /\ overrun = {} => Exactly
    PROVE  failures' = 0 /\ crashes' = 0 /\ overrun' = {} => Exactly'
<1> SUFFICES ASSUME failures' = 0, crashes' = 0, overrun' = {}
             PROVE  Exactly'
  OBVIOUS
<1>0. failures \in Nat /\ crashes \in Nat
  BY DEF Slots!TypeOK
<1>1. ASSUME UNCHANGED Slots!bounds PROVE Exactly
  BY <1>1 DEF Slots!bounds
<1>2. CASE \E p \in Slots!Procs : Slots!RequestNext(p) \/ (p \in Calls /\ Slots!CallNext(p))
  <2>1. PICK p \in Slots!Procs : Slots!RequestNext(p) \/ (p \in Calls /\ Slots!CallNext(p))
    BY <1>2
  <2>2. UNCHANGED Slots!bounds \/ Slots!Fails
    BY <2>1
    DEF Slots!RequestNext, Slots!CallNext, Slots!TryAcquire, Slots!IncrementWait, Slots!Poll,
        Slots!GiveUpWaiting, Slots!DecrementWait, Slots!Finish, Slots!Release,
        Slots!AcquireLease, Slots!CreateUpstream, Slots!UndoLease, Slots!EndSession,
        Slots!ReleaseLive, Slots!DropLease, Slots!Works
  <2>3. UNCHANGED Slots!bounds
    BY <1>0, <2>2 DEF Slots!Fails
  <2>4. QED BY <1>1, <2>1, <2>3, CallExact
<1>3. CASE \E p \in Slots!Procs : Slots!SlotExpires(p)
  <2>1. PICK p \in Slots!Procs : Slots!SlotExpires(p)
    BY <1>3
  <2>2. p \in slots /\ place[p] \in Slots!Gone /\ UNCHANGED Slots!bounds
    BY <2>1 DEF Slots!SlotExpires, Slots!bounds
  <2>3. QED BY <1>1, <2>2 DEF Exactly, Slots!At, Slots!Procs, Slots!Gone, Slots!SlotLabels
<1>4. CASE \E l \in live : Slots!LeaseExpires(l)
  <2>1. PICK l \in live : Slots!LeaseExpires(l)
    BY <1>4
  <2>2. /\ UNCHANGED Slots!bounds
        /\ l = Slots!Lease(l[1]) => place[l[1]] \notin Slots!LeaseLabels
    BY <2>1 DEF Slots!LeaseExpires, Slots!bounds
  <2>3. PICK p \in Slots!At(Slots!LeaseLabels) : l = Slots!Lease(p)
    BY <1>1, <2>2 DEF Exactly
  <2>4. l[1] = p
    BY <2>3 DEF Slots!Lease
  <2>5. QED BY <2>2, <2>3, <2>4 DEF Slots!At, Slots!Procs
<1>5. CASE Slots!WaitExpires
  <2>1. UNCHANGED Slots!bounds /\ waiting > 0 /\ Slots!At(Slots!WaitLabels) = {}
    BY <1>5 DEF Slots!WaitExpires
  <2>2. waiting = 0
    BY <1>1, <2>1, FS_EmptySet DEF Exactly
  <2>3. QED BY <2>1, <2>2
<1>6. CASE \E S \in Instances : Slots!Crash(S)
  BY <1>0, <1>6 DEF Slots!Crash
<1>7. CASE UNCHANGED Slots!vars
  <2>1. UNCHANGED <<slots, live, waiting, place, attempt>> /\ UNCHANGED Slots!bounds
    BY <1>7 DEF Slots!vars, Slots!redisVars
  <2>2. QED BY <1>1, <2>1 DEF Exactly, Slots!At, Slots!Procs, Slots!Lease
<1>8. QED
  BY <1>2, <1>3, <1>4, <1>5, <1>6, <1>7 DEF Slots!Next, Slots!Procs

\* Every way out of a request gives back what it took, once: the counter of waiters
\* covers those who wait, and without failures the three keys say who is there.
THEOREM AllAccounted ==
    ASSUME Slots!SlotsAssumption
    PROVE  Slots!Spec => []Accounted
<1>1. Slots!Accounted <=>
          Counted /\ (failures = 0 /\ crashes = 0 /\ overrun = {} => Exactly)
  BY SlotsCount DEF Slots!Accounted, Counted, Exactly
<1>2. Slots!IInv /\ Slots!Accounted /\ [Slots!Next]_(Slots!vars) => Slots!Accounted'
  <2> SUFFICES ASSUME Slots!IInv, Slots!Accounted, [Slots!Next]_(Slots!vars)
               PROVE  Slots!Accounted'
    OBVIOUS
  <2>1. Counted'
    BY <1>1, CountedStep DEF Slots!IInv
  <2>2. failures' = 0 /\ crashes' = 0 /\ overrun' = {} => Exactly'
    BY <1>1, ExactStep DEF Slots!IInv
  <2>3. QED BY <2>1, <2>2, SlotsCount DEF Slots!Accounted, Counted, Exactly
<1>3. Slots!Init => Slots!Accounted
  BY SlotsInit
<1>4. QED BY <1>2, <1>3, SlotsInvariance, SameBooks, PTL DEF Slots!Spec

=============================================================================
