----------------------------- MODULE MCRichPost -----------------------------
(***************************************************************************)
(* A small instance of RichPost for TLC: two posts share an upload, a      *)
(* third has none.                                                         *)
(***************************************************************************)
EXTENDS RichPost, TLC

CONSTANTS p1, p2, p3, u1, u2

Uploads == p1 :> {u1, u2} @@ p2 :> {u2} @@ p3 :> {}

(* The lengths of the names of the states: the rest of a record is as long *)
(* in every state, except for a tombstone.                                 *)
Sizes == [none |-> 0, deleted |-> 1, live |-> 4, aborted |-> 7, deleting |-> 8, preparing |-> 9]
=============================================================================
