----------------------------- MODULE HoldPromise -----------------------------
(***************************************************************************)
(* What a batch image job promises its user about money: an amount is set  *)
(* aside when the job is accepted, and later either part of it is charged  *)
(* and the rest returned, or all of it is returned.  One of the two, once. *)
(***************************************************************************)
EXTENDS Naturals

CONSTANTS Hold, Actual   \* the amount set aside, and the part that is charged

\* Hold is positive and Actual is at most Hold: BatchImageAssumption says so.

VARIABLES
    account,   \* what the user can spend
    aside,     \* what is set aside for this job
    outcome    \* "open", "charged" or "returned"

holdVars == <<account, aside, outcome>>

Init == account \in Nat /\ aside = 0 /\ outcome = "open"

SetAside ==
    /\ outcome = "open" /\ aside = 0 /\ account >= Hold
    /\ account' = account - Hold /\ aside' = Hold
    /\ UNCHANGED outcome

Charge ==
    /\ outcome = "open" /\ aside = Hold
    /\ account' = account + (Hold - Actual) /\ aside' = 0
    /\ outcome' = "charged"

GiveBack ==
    /\ outcome = "open" /\ aside = Hold
    /\ account' = account + Hold /\ aside' = 0
    /\ outcome' = "returned"

Next == SetAside \/ Charge \/ GiveBack

Spec == Init /\ [][Next]_holdVars
=============================================================================
