--------------------------- MODULE DirectCourier ---------------------------
(***************************************************************************)
(* The direct service implements Courier: an envelope is owed while it is  *)
(* in its sender's outbox and its recipient has not recorded it, and done  *)
(* once the recipient has.                                                 *)
(***************************************************************************)
EXTENDS Direct

Recorded == UNION {seen[p] : p \in Peer}

Queued(p) == {Id(outbox[p][i]) : i \in DOMAIN outbox[p]}

Waiting == (UNION {Queued(p) : p \in Peer}) \ Recorded

C == INSTANCE Courier WITH owed <- Waiting, done <- Recorded

(* No step of the service, a crash included, drops an envelope that is     *)
(* queued and not recorded, and no recipient forgets one it recorded       *)
(* (queue, RetryPending, markSeen).                                        *)
ImplementsCourier == C!Spec
=============================================================================
