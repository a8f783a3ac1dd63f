--------------------------- MODULE MCOAuthRefresh ---------------------------
(* Two instances with a refresher each, one of them with requests. *)
EXTENDS OAuthRefresh, TLC

CONSTANTS b1, b2, q1

TwoInstances == b1 :> 1 @@ b2 :> 2 @@ q1 :> 1
=============================================================================
