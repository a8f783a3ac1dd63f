--------------------------- MODULE PaymentPromise ---------------------------
(***************************************************************************)
(* What the payment system promises about an order, stated without         *)
(* webhooks, leases, redeem codes or retries: the user pays at the         *)
(* provider, the purchased value is granted once and only against that     *)
(* payment, and only an order whose value was granted is completed.        *)
(* PaymentOrder is shown to implement this specification.                  *)
(***************************************************************************)
EXTENDS Naturals

CONSTANT Orders

VARIABLES paid,      \* the provider holds the user's money for the order
          granted,   \* how often its balance was credited or subscription extended
          completed  \* the order is reported as COMPLETED

promiseVars == <<paid, granted, completed>>

Init ==
    /\ paid = {}
    /\ granted = [o \in Orders |-> 0]
    /\ completed = {}

\* The user pays order o at the provider.
Pay(o) ==
    /\ o \notin paid
    /\ paid' = paid \cup {o}
    /\ UNCHANGED <<granted, completed>>

\* The value of a paid order is handed to the user, for the first time.
Grant(o) ==
    /\ o \in paid
    /\ granted[o] = 0
    /\ granted' = [granted EXCEPT ![o] = 1]
    /\ UNCHANGED <<paid, completed>>

\* An order whose value was handed out is reported as completed.
Complete(o) ==
    /\ granted[o] = 1
    /\ o \notin completed
    /\ completed' = completed \cup {o}
    /\ UNCHANGED <<paid, granted>>

Next == \E o \in Orders : Pay(o) \/ Grant(o) \/ Complete(o)

Spec == Init /\ [][Next]_promiseVars
=============================================================================
