------------------------------ MODULE MCDirect ------------------------------
(***************************************************************************)
(* Small instances of Direct for TLC.                                      *)
(***************************************************************************)
EXTENDS DirectCourier, TLC

CONSTANTS ana, bea      \* two peers

(* ana writes and removes, bea reads and removes.                          *)
ChatOps == ana :> {"chat"} @@ bea :> {"read", "delete"}
ChatBound == ana :> 1 @@ bea :> 1
ReadBound == ana :> 2 @@ bea :> 2

(* Only ana speaks: it writes, follows and unfollows.                      *)
SendBound == ana :> 2 @@ bea :> 0
TalkOps == ana :> {"chat", "follow", "unfollow"} @@ bea :> {}

Symmetry == Permutations(Worker) \cup Permutations(Stream)
=============================================================================
