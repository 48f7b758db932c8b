----------------------------- MODULE MCPayment -----------------------------
EXTENDS Payment, TLC

CONSTANTS ana, bea, r1, r2, c1, c2

(* ana asks bea twice under one ID, and has two cancellations for it; the   *)
(* second has the nonce of the second request.                              *)
Ids == [x \in Object |-> "id"]
Nonces == [x \in Object |->
    CASE x = r1 -> 1 [] x = r2 -> 2 [] x = c1 -> 3 [] x = c2 -> 2]
Payers == [r \in Request |-> bea]
Payees == [r \in Request |-> ana]
Events == [c \in Status |-> c]

Symmetry == Permutations(Stream)
=============================================================================
