--------------------------- MODULE MCPaymentOrder ---------------------------
(* Instances of PaymentOrder for TLC: one order of either type, the number  *)
(* of workers set by the configuration.                                     *)
EXTENDS PaymentOrder, TLC

BalanceOrder == [o \in Orders |-> "balance"]
SubscriptionOrder == [o \in Orders |-> "subscription"]

WorkerSymmetry == Permutations(Workers)
=============================================================================
