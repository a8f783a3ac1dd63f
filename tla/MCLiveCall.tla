---- MODULE MCLiveCall ----
(* Model values and bounds for LiveCall. *)
EXTENDS LiveCall, TLC

\* Redis calls whose failure the code handles: all but the hand-over of control
\* to and from a proxy, and the script that closes the record.
HandledFailures ==
    {"acquire", "giveUp", "save", "claim", "observe", "retry", "connected", "steady",
     "proxied", "proxySteady", "releaseLease"}

\* The proofs about logs and watchers assume no more than this.
ASSUME HandledFailuresAssumption ==
    (ClosingCalls \cup HandOverCalls) \cap HandledFailures = {}
====
