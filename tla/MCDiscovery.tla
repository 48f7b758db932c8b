----------------------------- MODULE MCDiscovery -----------------------------
(***************************************************************************)
(* A small instance of Discovery for TLC: peer 1 may reconnect and comes   *)
(* first, but need never answer a probe; peer 2 does.                      *)
(***************************************************************************)
EXTENDS Discovery, TLC

CONSTANTS c1, c2, c3

Peers == c1 :> 1 @@ c2 :> 1 @@ c3 :> 2
=============================================================================
