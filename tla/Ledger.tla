------------------------------- MODULE Ledger -------------------------------
(***************************************************************************)
(* What payees and payers can rely on (tickets/BBGO-PAY-001.md): a payer   *)
(* accepts requests that do not contradict each other and at most one      *)
(* cancellation of a request that it has, a payee records only what a      *)
(* payer has accepted, and neither ever forgets.                           *)
(***************************************************************************)
EXTENDS Integers

CONSTANTS Peer, Request, Status, IdOf, NonceOf, PayerOf, PayeeOf

VARIABLES
    accepted,   \* accepted[p]: what p has accepted as payer, with its signer
    recorded    \* recorded[p]: what p, as payee, knows to be accepted

Item == [object : Request \cup Status, signer : Peer]

Init ==
    /\ accepted = [p \in Peer |-> {}]
    /\ recorded = [p \in Peer |-> {}]

(* A request for p that shares no ID and no nonce with an earlier one.      *)
AcceptRequest(p, i) ==
    /\ i.object \in Request
    /\ PayerOf[i.object] = p
    /\ PayeeOf[i.object] = i.signer
    /\ \A j \in accepted[p] : j.object \in Request =>
           IdOf[j.object] # IdOf[i.object] /\ NonceOf[j.object] # NonceOf[i.object]
    /\ accepted' = [accepted EXCEPT ![p] = @ \cup {i}]
    /\ UNCHANGED recorded

(* The first cancellation of a request that p has, by its payee.            *)
AcceptStatus(p, i) ==
    /\ i.object \in Status
    /\ \E j \in accepted[p] :
           j.object \in Request /\ IdOf[j.object] = IdOf[i.object] /\ j.signer = i.signer
    /\ \A j \in accepted[p] : j.object \in Status => IdOf[j.object] # IdOf[i.object]
    /\ accepted' = [accepted EXCEPT ![p] = @ \cup {i}]
    /\ UNCHANGED recorded

Record(p, i) ==
    /\ i.signer = p
    /\ \E q \in Peer : i \in accepted[q]
    /\ \A j \in recorded[p] : j.object \in Status /\ i.object \in Status =>
           IdOf[j.object] # IdOf[i.object]
    /\ recorded' = [recorded EXCEPT ![p] = @ \cup {i}]
    /\ UNCHANGED accepted

Next ==
    \E p \in Peer, i \in Item : AcceptRequest(p, i) \/ AcceptStatus(p, i) \/ Record(p, i)

Spec == Init /\ [][Next]_<<accepted, recorded>>
=============================================================================
