--------------------------- MODULE MCAccountStore ---------------------------
(***************************************************************************)
(* A small instance of AccountStore for TLC: two grants for two devices.   *)
(***************************************************************************)
EXTENDS AccountStore, TLC

CONSTANTS g1, g2, d1, d2, message, policy

Devices == g1 :> d1 @@ g2 :> d2
Masks == g1 :> {message, policy} @@ g2 :> {message}
=============================================================================
