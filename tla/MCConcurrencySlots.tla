------------------------ MODULE MCConcurrencySlots ------------------------
(* Model values for ConcurrencySlots. *)
EXTENDS ConcurrencySlots

CONSTANTS r1, r2, c1, c2

\* Two instances that each serve a request and a Live call.
TwoInstances == {{r1, c1}, {r2, c2}}
===========================================================================
