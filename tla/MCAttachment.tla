---------------------------- MODULE MCAttachment ----------------------------
(***************************************************************************)
(* Small instances of Attachment for TLC.                                  *)
(***************************************************************************)
EXTENDS Attachment, TLC

CONSTANTS c1, c2      \* two files

Lengths == c1 :> 1 @@ c2 :> 2

Symmetry == Permutations(RefId)
=============================================================================
