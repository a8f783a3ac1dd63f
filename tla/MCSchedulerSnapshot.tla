------------------------ MODULE MCSchedulerSnapshot ------------------------
(* One account and one group: the pairs of changes that can meet, the full   *)
(* rebuild beside the outbox worker, a request or both, and one failure or   *)
(* two where the instance stays small enough.                                *)
EXTENDS SchedulerSnapshot, TLC

CONSTANTS w1, w2, p1, f1, r1

Changes(k1, k2) == w1 :> k1 @@ w2 :> k2
Scenario(kinds, run, n) == [kind |-> kinds, running |-> run, faults |-> n]

Instances == {
    Scenario(Changes("auto", "auto"), {p1, f1}, 0),
    Scenario(Changes("auto", "tx"), {p1, f1}, 0),
    Scenario(w1 :> "auto", {p1, f1}, 2),
    Scenario(Changes("auto", "group"), {p1, f1}, 0),
    Scenario(Changes("auto", "group"), {f1}, 1),
    Scenario(Changes("auto", "group"), {f1, r1}, 0),
    Scenario(Changes("group", "group"), {p1, f1}, 1),
    Scenario(Changes("group", "group"), {f1, r1}, 1),
    Scenario(Changes("group", "group"), {p1, f1, r1}, 0)}
=============================================================================
