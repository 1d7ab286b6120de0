-------------------------- MODULE MCControlServer --------------------------
(* Two peers, one of which says more than the other.                       *)
EXTENDS ControlServer, TLC
CONSTANTS c1, c2
MCMaxRequests == c1 :> 3 @@ c2 :> 2
=============================================================================
