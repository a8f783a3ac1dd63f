--------------------------- MODULE MCPaymentRefund ---------------------------
(* Instances of PaymentRefund for TLC: one order of two units of value.     *)
EXTENDS PaymentRefund, TLC

WorkerSymmetry == Permutations(Workers)
=============================================================================
